---- MODULE Spec2Model ----
(***************************************************************************)
(* Invoice lifecycle, inventory ledger and check linkage of the fabric     *)
(* store backend (src/app/api/v1/endpoints/{invoices,checks,inventory,     *)
(* products}.py).  Every HTTP handler is one action: a handler that raises *)
(* HTTPException before its commit leaves the store as it was (the session *)
(* of get_db is closed without a commit), so only the response changes.    *)
(*                                                                         *)
(* Floats are modelled as integers.  Columns no handler reads again (unit, *)
(* notes, created_by, timestamps, the stored copy of rolls_count /         *)
(* pieces_per_roll / detailed_rolls, payment_breakdown, attachments) are   *)
(* left out of the rows.  All invoices are created in one Persian year.    *)
(***************************************************************************)
EXTENDS Integers, Sequences, FiniteSets, TLC

VARIABLES
    invoices,      \* Invoice rows: sequence, the row with id i at index i
    items,         \* InvoiceItem rows in id order
    ledger,        \* InventoryTransaction rows in id order
    checks,        \* Check rows: sequence, the row with id c at index c
    products,      \* Product rows: id -> [exists, is_available]
    next_item_id,  \* next primary key of InvoiceItem
    next_tx_id,    \* next primary key of InventoryTransaction
    last,          \* the response being returned: [op, id, role, code, detail]
    qin,           \* an invoice item of a request  (effective-quantity check)
    qout,          \* the effective quantity resolved for qin
    variant,       \* Product rows, variant columns: id -> [is_series,
                   \* series_numbers, series_inventory, available_colors,
                   \* color_inventory]
    carts,         \* Cart rows: sequence, the row with id c at index c
    cart_items,    \* CartItem rows in id order
    race,          \* create_invoice requests in flight, one per client:
                   \* [pc, req, role, number, resp]
    customers,     \* Customer rows, balance columns: id -> [current_balance,
                   \* balance_notes]; the notes are the list of their lines
    balance_log,   \* history: the accepted adjust and set requests of each
                   \* customer, in order
    seen,          \* the invoice ids returned by the last read_invoices
    panel          \* customer-panel requests in flight, one per client:
                   \* [pc, op, customer, cart, item, resp]

vars == <<invoices, items, ledger, checks, products, next_item_id, next_tx_id, last, qin, qout,
          variant, carts, cart_items, race, customers, balance_log, seen, panel>>

storeVars == <<invoices, items, ledger, checks, products, next_item_id, next_tx_id>>

qtyVars == <<qin, qout>>

cartVars == <<variant, carts, cart_items>>

raceVars == <<race>>

balanceVars == <<customers, balance_log>>

readVars == <<seen>>

panelVars == <<panel>>

-----------------------------------------------------------------------------
(* Bounds of the model *)

MaxInvoices == 1

MaxLedger == 4

MaxChecks == 1

\* invoices of the check-linkage specification
MaxLinkedInvoices == 2

\* carts of the cart specification
MaxCarts == 1

-----------------------------------------------------------------------------
(* Optional values: None is the empty sequence, Some(v) a one-element one. *)

None == <<>>

Some(v) == <<v>>

IsSome(o) == o # <<>>

Val(o) == o[1]

-----------------------------------------------------------------------------
(* Enumerations *)

UserRole == {"admin", "accountant", "warehouse"}

InvoiceStatus == {"draft", "warehouse_pending", "accountant_pending", "approved",
                  "shipped", "delivered", "cancelled"}

PaymentType == {"cash", "check", "mixed"}

TransactionReason == {"sale_reservation", "shipping", "restock", "adjustment", "return"}

\* Customer rows of the store (the model neither adds nor deletes customers).
CustomerIds == {1, 2}

\* Product primary keys ever handed out.
ProductIds == {1, 2}

-----------------------------------------------------------------------------
(* Role dependencies *)

get_current_admin_or_accountant_user(role) == role \in {"admin", "accountant"}

get_current_admin_or_warehouse_user(role) == role \in {"admin", "warehouse"}

-----------------------------------------------------------------------------
(* Helpers over rows *)

RECURSIVE SumSeq(_)
SumSeq(s) == IF s = <<>> THEN 0 ELSE Head(s) + SumSeq(Tail(s))

RECURSIVE Flatten(_)
Flatten(ss) == IF ss = <<>> THEN <<>> ELSE Head(ss) \o Flatten(Tail(ss))

\* invoice.items: the InvoiceItem rows of one invoice, in id order
InvoiceItems(its, inv) == SelectSeq(its, LAMBDA it : it.invoice_id = inv)

\* sum(i.quantity * i.price for i in invoice.items)
ItemsTotal(its, inv) ==
    LET rows == InvoiceItems(its, inv)
    IN  SumSeq([k \in 1..Len(rows) |-> rows[k].quantity * rows[k].price])

InvoiceExists(i) == i \in 1..Len(invoices)

ProductExists(p) == p \in DOMAIN products /\ products[p].exists

\* what the caller gets back: status code and, for an error, which one
Response(op, id, role, code, detail) ==
    [op |-> op, id |-> id, role |-> role, code |-> code, detail |-> detail]

-----------------------------------------------------------------------------
(* Effective quantity of a requested invoice item, create_invoice 117-137. *)
(* A detailed roll is the sequence of its pieces' measurements.            *)
(* Result: [ok, q]; ok = FALSE is the 400 for a missing pieces_per_roll.   *)

\* the quantity resolved with rolls_count ahead of detailed_rolls
EffectiveQuantityRollsFirst(item) ==
    IF IsSome(item.rolls_count)
    THEN IF ~IsSome(item.pieces_per_roll)
         THEN [ok |-> FALSE, q |-> 0]
         ELSE [ok |-> TRUE, q |-> Val(item.rolls_count) * Val(item.pieces_per_roll)]
    ELSE IF IsSome(item.detailed_rolls) /\ Val(item.detailed_rolls) # <<>>
         THEN [ok |-> TRUE, q |-> SumSeq(Flatten(Val(item.detailed_rolls)))]
         ELSE [ok |-> TRUE, q |-> item.quantity]

EffectiveQuantity(item) ==
    IF IsSome(item.detailed_rolls) /\ Val(item.detailed_rolls) # <<>>
    THEN [ok |-> TRUE, q |-> SumSeq(Flatten(Val(item.detailed_rolls)))]
    ELSE IF IsSome(item.rolls_count)
         THEN IF ~IsSome(item.pieces_per_roll)
              THEN [ok |-> FALSE, q |-> 0]
              ELSE [ok |-> TRUE, q |-> Val(item.rolls_count) * Val(item.pieces_per_roll)]
         ELSE [ok |-> TRUE, q |-> item.quantity]

-----------------------------------------------------------------------------
(* Invoice number, create_invoice 178-195: INV-{persian_year}-{n:03d}.     *)
(* The last invoice of the year is the first one in descending string      *)
(* order of invoice_number; the numbers are modelled by their digits.      *)

RECURSIVE Digits(_)
Digits(n) == IF n < 10 THEN <<n>> ELSE Append(Digits(n \div 10), n % 10)

\* f"{n:03d}"
Format03d(n) ==
    LET d == Digits(n)
    IN  IF Len(d) >= 3 THEN d ELSE [k \in 1..(3 - Len(d)) |-> 0] \o d

\* string comparison a < b
RECURSIVE StrLess(_, _)
StrLess(a, b) ==
    IF a = <<>> THEN b # <<>>
    ELSE IF b = <<>> THEN FALSE
    ELSE IF Head(a) # Head(b) THEN Head(a) < Head(b)
    ELSE StrLess(Tail(a), Tail(b))

InvoiceNumbers == {invoices[i].number : i \in 1..Len(invoices)}

\* order_by(invoice_number.desc()).first(), then int(split("-")[-1]) + 1
NewInvoiceNumber ==
    IF InvoiceNumbers = {} THEN 1
    ELSE (CHOOSE n \in InvoiceNumbers :
            \A m \in InvoiceNumbers : ~StrLess(Format03d(n), Format03d(m))) + 1

-----------------------------------------------------------------------------
(* create_invoice, invoices.py 87-255 *)

\* an HTTPException (or the final 200): status code and which error
Result(code, detail) == [code |-> code, detail |-> detail]

Ok == Result(200, "")

\* the checks of one requested item, lines 109-149
ItemCheck(item) ==
    IF ~ProductExists(item.product_id) THEN Result(404, "product_not_found")
    ELSE IF ~EffectiveQuantity(item).ok THEN Result(400, "pieces_per_roll_missing")
    ELSE IF EffectiveQuantity(item).q <= 0 THEN Result(400, "quantity_not_positive")
    ELSE IF ~products[item.product_id].is_available THEN Result(400, "product_unavailable")
    ELSE Ok

\* the loop of lines 108-151: the error of the first item that fails
RECURSIVE ItemsCheck(_)
ItemsCheck(reqItems) ==
    IF reqItems = <<>> THEN Ok
    ELSE IF ItemCheck(Head(reqItems)) # Ok THEN ItemCheck(Head(reqItems))
    ELSE ItemsCheck(Tail(reqItems))

CheckExists(c) == c \in 1..Len(checks) /\ checks[c].alive

\* the check of a check or mixed payment without the test of lines 172-176
CheckPreconditionRelinking(req) ==
    IF req.payment_type \in {"check", "mixed"}
    THEN IF ~IsSome(req.check_id) THEN Result(400, "check_id_required")
         ELSE IF ~CheckExists(Val(req.check_id)) THEN Result(404, "check_not_found")
         ELSE IF checks[Val(req.check_id)].customer_id # req.customer_id
              THEN Result(400, "check_of_other_customer")
         ELSE Ok
    ELSE Ok

\* lines 153-176: the check of a check or mixed payment
CheckPrecondition(req) ==
    IF req.payment_type \in {"check", "mixed"}
    THEN IF ~IsSome(req.check_id) THEN Result(400, "check_id_required")
         ELSE IF ~CheckExists(Val(req.check_id)) THEN Result(404, "check_not_found")
         ELSE IF checks[Val(req.check_id)].customer_id # req.customer_id
              THEN Result(400, "check_of_other_customer")
         ELSE IF IsSome(checks[Val(req.check_id)].related_invoice_id)
              THEN Result(400, "check_already_linked")
         ELSE Ok
    ELSE Ok

\* an invoice created with the default of the status column
InitialStatusDraft == "draft"

\* line 209
InitialStatus == "warehouse_pending"

\* the outcome of create_invoice; 500 is the unique violation on
\* invoice_number at the flush of line 217
CreateInvoiceResult(req, role) ==
    IF ~get_current_admin_or_accountant_user(role) THEN Result(403, "not_enough_permissions")
    ELSE IF req.customer_id \notin CustomerIds THEN Result(404, "customer_not_found")
    ELSE IF ItemsCheck(req.items) # Ok THEN ItemsCheck(req.items)
    ELSE IF CheckPrecondition(req) # Ok THEN CheckPrecondition(req)
    ELSE IF NewInvoiceNumber \in InvoiceNumbers THEN Result(500, "internal_error")
    ELSE Ok

\* variant of create_invoice that inserts and commits the invoice row
\* before the loop over the items, so that a rejected item leaves it behind
CreateInvoiceRowFirst(req, role) ==
    LET res == CreateInvoiceResult(req, role)
        id == Len(invoices) + 1
        n == Len(req.items)
        subtotal == SumSeq([k \in 1..n |->
                        EffectiveQuantity(req.items[k]).q * req.items[k].price])
        row == [customer_id |-> req.customer_id,
                status |-> InitialStatus,
                subtotal |-> subtotal,
                total |-> subtotal,
                payment_type |-> req.payment_type,
                tracking_info |-> None,
                number |-> NewInvoiceNumber]
    IN  IF res # Ok
        THEN /\ last' = Response("create_invoice", 0, role, res.code, res.detail)
             /\ invoices' = IF /\ get_current_admin_or_accountant_user(role)
                               /\ req.customer_id \in CustomerIds
                               /\ ItemsCheck(req.items) # Ok
                            THEN Append(invoices, [row EXCEPT !.subtotal = 0, !.total = 0])
                            ELSE invoices
             /\ UNCHANGED <<items, ledger, checks, products, next_item_id, next_tx_id,
                            qtyVars, cartVars, raceVars, balanceVars, readVars, panelVars>>
        ELSE /\ invoices' = Append(invoices, row)
             /\ items' = items \o [k \in 1..n |->
                    [id |-> next_item_id + k - 1,
                     invoice_id |-> id,
                     product_id |-> req.items[k].product_id,
                     quantity |-> EffectiveQuantity(req.items[k]).q,
                     price |-> req.items[k].price]]
             /\ next_item_id' = next_item_id + n
             /\ checks' = IF /\ req.payment_type \in {"check", "mixed"}
                             /\ IsSome(req.check_id)
                             /\ CheckExists(Val(req.check_id))
                          THEN [checks EXCEPT ![Val(req.check_id)].related_invoice_id = Some(id)]
                          ELSE checks
             /\ last' = Response("create_invoice", id, role, 200, "")
             /\ UNCHANGED <<ledger, products, next_tx_id, qtyVars, cartVars, raceVars, balanceVars, readVars, panelVars>>

CreateInvoice(req, role) ==
    LET res == CreateInvoiceResult(req, role)
        id == Len(invoices) + 1
        n == Len(req.items)
        subtotal == SumSeq([k \in 1..n |->
                        EffectiveQuantity(req.items[k]).q * req.items[k].price])
    IN  IF res # Ok
        THEN /\ last' = Response("create_invoice", 0, role, res.code, res.detail)
             /\ UNCHANGED <<storeVars, qtyVars, cartVars, raceVars, balanceVars, readVars, panelVars>>
        ELSE /\ invoices' = Append(invoices,
                    [customer_id |-> req.customer_id,
                     status |-> InitialStatus,
                     subtotal |-> subtotal,
                     total |-> subtotal,
                     payment_type |-> req.payment_type,
                     tracking_info |-> None,
                     number |-> NewInvoiceNumber])
             /\ items' = items \o [k \in 1..n |->
                    [id |-> next_item_id + k - 1,
                     invoice_id |-> id,
                     product_id |-> req.items[k].product_id,
                     quantity |-> EffectiveQuantity(req.items[k]).q,
                     price |-> req.items[k].price]]
             /\ next_item_id' = next_item_id + n
             \* lines 237-244: link the check after the commit
             /\ checks' = IF /\ req.payment_type \in {"check", "mixed"}
                             /\ IsSome(req.check_id)
                             /\ CheckExists(Val(req.check_id))
                          THEN [checks EXCEPT ![Val(req.check_id)].related_invoice_id = Some(id)]
                          ELSE checks
             /\ last' = Response("create_invoice", id, role, 200, "")
             /\ UNCHANGED <<ledger, products, next_tx_id, qtyVars, cartVars, raceVars, balanceVars, readVars, panelVars>>

-----------------------------------------------------------------------------
(* reserve_invoice_stock, invoices.py 296-423 *)

\* one edit applied to its invoice item, lines 343-379: [code, row]
ApplyEdit(row, edit) ==
    LET afterQty ==
            IF IsSome(edit.detailed_rolls)
            THEN IF Val(edit.detailed_rolls) # <<>>
                 THEN IF \E k \in 1..Len(Flatten(Val(edit.detailed_rolls))) :
                             Flatten(Val(edit.detailed_rolls))[k] <= 0
                      THEN [code |-> 400, row |-> row]
                      ELSE [code |-> 200,
                            row |-> [row EXCEPT !.quantity =
                                        SumSeq(Flatten(Val(edit.detailed_rolls)))]]
                 ELSE [code |-> 200, row |-> row]
            ELSE IF IsSome(edit.quantity)
                 THEN IF Val(edit.quantity) <= 0
                      THEN [code |-> 400, row |-> row]
                      ELSE [code |-> 200, row |-> [row EXCEPT !.quantity = Val(edit.quantity)]]
                 ELSE [code |-> 200, row |-> row]
    IN  IF afterQty.code # 200 THEN afterQty
        ELSE IF IsSome(edit.price)
             THEN IF Val(edit.price) < 0
                  THEN [code |-> 400, row |-> row]
                  ELSE [code |-> 200, row |-> [afterQty.row EXCEPT !.price = Val(edit.price)]]
             ELSE afterQty

\* the loop of lines 336-380 over the invoice's items: [code, rows]
RECURSIVE ApplyEdits(_, _)
ApplyEdits(rows, edits) ==
    IF edits = <<>> THEN [code |-> 200, rows |-> rows]
    ELSE LET e == Head(edits)
         IN  IF ~\E k \in 1..Len(rows) : rows[k].id = e.id
             THEN [code |-> 404, rows |-> rows]
             ELSE LET k == CHOOSE k \in 1..Len(rows) : rows[k].id = e.id
                      r == ApplyEdit(rows[k], e)
                  IN  IF r.code # 200 THEN [code |-> r.code, rows |-> rows]
                      ELSE ApplyEdits([rows EXCEPT ![k] = r.row], Tail(edits))

\* rows of the ledger added for the items of one invoice
LedgerRows(rows, inv, reason, sign) ==
    [k \in 1..Len(rows) |->
        [id |-> next_tx_id + k - 1,
         product_id |-> rows[k].product_id,
         change_quantity |-> sign * rows[k].quantity,
         reason |-> reason,
         reference_id |-> Some(inv)]]

ReserveStatuses == {"warehouse_pending", "accountant_pending"}

ReserveCode(i, edits, role) ==
    IF ~get_current_admin_or_warehouse_user(role) THEN 403
    ELSE IF ~InvoiceExists(i) THEN 404
    ELSE IF invoices[i].status \notin ReserveStatuses THEN 400
    ELSE IF ApplyEdits(InvoiceItems(items, i), edits).code # 200
         THEN ApplyEdits(InvoiceItems(items, i), edits).code
    ELSE IF \E k \in 1..Len(items) :
                items[k].invoice_id = i /\ ~products[items[k].product_id].is_available
         THEN 400
    ELSE 200

\* variant of reserve_invoice_stock that keeps, on a failure, the edits
\* applied before the failing one (as a commit per edited item would)
ReserveInvoiceStockPartial(i, edits, role) ==
    LET code == ReserveCode(i, edits, role)
        edited == ApplyEdits(InvoiceItems(items, i), edits).rows
        newItems == [k \in 1..Len(items) |->
                        IF items[k].invoice_id = i
                        THEN edited[CHOOSE j \in 1..Len(edited) : edited[j].id = items[k].id]
                        ELSE items[k]]
        rows == LedgerRows(edited, i, "sale_reservation", -1)
    IN  IF code # 200
        THEN /\ last' = Response("reserve", i, role, code, "")
             /\ items' = IF code = 403 \/ ~InvoiceExists(i) THEN items ELSE newItems
             /\ UNCHANGED <<invoices, ledger, checks, products, next_item_id,
                            next_tx_id, qtyVars, cartVars, raceVars, balanceVars, readVars, panelVars>>
        ELSE /\ items' = newItems
             /\ invoices' = [invoices EXCEPT
                    ![i].subtotal = IF edits # <<>> THEN ItemsTotal(newItems, i) ELSE @,
                    ![i].total = IF edits # <<>> THEN ItemsTotal(newItems, i) ELSE @,
                    ![i].status = "accountant_pending"]
             /\ ledger' = ledger \o rows
             /\ next_tx_id' = next_tx_id + Len(rows)
             /\ last' = Response("reserve", i, role, 200, "")
             /\ UNCHANGED <<checks, products, next_item_id, qtyVars, cartVars, raceVars, balanceVars, readVars, panelVars>>

ReserveInvoiceStock(i, edits, role) ==
    LET code == ReserveCode(i, edits, role)
        edited == ApplyEdits(InvoiceItems(items, i), edits).rows
        newItems == [k \in 1..Len(items) |->
                        IF items[k].invoice_id = i
                        THEN edited[CHOOSE j \in 1..Len(edited) : edited[j].id = items[k].id]
                        ELSE items[k]]
        rows == LedgerRows(edited, i, "sale_reservation", -1)
    IN  IF code # 200
        THEN /\ last' = Response("reserve", i, role, code, "")
             /\ UNCHANGED <<storeVars, qtyVars, cartVars, raceVars, balanceVars, readVars, panelVars>>
        ELSE /\ items' = newItems
             /\ invoices' = [invoices EXCEPT
                    ![i].subtotal = IF edits # <<>> THEN ItemsTotal(newItems, i) ELSE @,
                    ![i].total = IF edits # <<>> THEN ItemsTotal(newItems, i) ELSE @,
                    ![i].status = "accountant_pending"]
             /\ ledger' = ledger \o rows
             /\ next_tx_id' = next_tx_id + Len(rows)
             /\ last' = Response("reserve", i, role, 200, "")
             /\ UNCHANGED <<checks, products, next_item_id, qtyVars, cartVars, raceVars, balanceVars, readVars, panelVars>>

-----------------------------------------------------------------------------
(* approve_invoice, invoices.py 426-468 *)

\* approve_invoice without its status guard on warehouse_pending
ApproveCodeUnreserved(i, role) ==
    IF ~get_current_admin_or_accountant_user(role) THEN 403
    ELSE IF ~InvoiceExists(i) THEN 404
    ELSE IF invoices[i].status \notin {"warehouse_pending", "accountant_pending"} THEN 400
    ELSE 200

ApproveCode(i, role) ==
    IF ~get_current_admin_or_accountant_user(role) THEN 403
    ELSE IF ~InvoiceExists(i) THEN 404
    ELSE IF invoices[i].status # "accountant_pending" THEN 400
    ELSE 200

ApproveInvoice(i, role) ==
    LET code == ApproveCode(i, role)
    IN  /\ last' = Response("approve", i, role, code, "")
        /\ invoices' = IF code = 200 THEN [invoices EXCEPT ![i].status = "approved"]
                       ELSE invoices
        /\ UNCHANGED <<items, ledger, checks, products, next_item_id, next_tx_id, qtyVars, cartVars, raceVars, balanceVars, readVars, panelVars>>

-----------------------------------------------------------------------------
(* ship_invoice, invoices.py 471-533 *)

\* variant of ship_invoice depending on get_current_active_user only: any
\* role may ship
ShipCodeAnyRole(i, role) ==
    IF ~InvoiceExists(i) THEN 404
    ELSE IF invoices[i].status # "approved" THEN 400
    ELSE 200

ShipCode(i, role) ==
    IF ~get_current_admin_or_warehouse_user(role) THEN 403
    ELSE IF ~InvoiceExists(i) THEN 404
    ELSE IF invoices[i].status # "approved" THEN 400
    ELSE 200

\* variant of ship_invoice that deducts the item quantities again
\* (change_quantity = -quantity instead of 0 at line 501)
ShipInvoiceDeducting(i, tracking_info, role) ==
    LET code == ShipCode(i, role)
        rows == LedgerRows(InvoiceItems(items, i), i, "shipping", -1)
    IN  IF code # 200
        THEN /\ last' = Response("ship", i, role, code, "")
             /\ UNCHANGED <<storeVars, qtyVars, cartVars, raceVars, balanceVars, readVars, panelVars>>
        ELSE /\ ledger' = ledger \o rows
             /\ next_tx_id' = next_tx_id + Len(rows)
             /\ invoices' = [invoices EXCEPT ![i].status = "shipped",
                                             ![i].tracking_info = Some(tracking_info)]
             /\ last' = Response("ship", i, role, 200, "")
             /\ UNCHANGED <<items, checks, products, next_item_id, qtyVars, cartVars, raceVars, balanceVars, readVars, panelVars>>

ShipInvoice(i, tracking_info, role) ==
    LET code == ShipCode(i, role)
        rows == LedgerRows(InvoiceItems(items, i), i, "shipping", 0)
    IN  IF code # 200
        THEN /\ last' = Response("ship", i, role, code, "")
             /\ UNCHANGED <<storeVars, qtyVars, cartVars, raceVars, balanceVars, readVars, panelVars>>
        ELSE /\ ledger' = ledger \o rows
             /\ next_tx_id' = next_tx_id + Len(rows)
             /\ invoices' = [invoices EXCEPT ![i].status = "shipped",
                                             ![i].tracking_info = Some(tracking_info)]
             /\ last' = Response("ship", i, role, 200, "")
             /\ UNCHANGED <<items, checks, products, next_item_id, qtyVars, cartVars, raceVars, balanceVars, readVars, panelVars>>

-----------------------------------------------------------------------------
(* deliver_invoice, invoices.py 536-578 *)

\* deliver_invoice accepting an invoice that was approved but never shipped
DeliverCodeUnshipped(i, role) ==
    IF ~get_current_admin_or_warehouse_user(role) THEN 403
    ELSE IF ~InvoiceExists(i) THEN 404
    ELSE IF invoices[i].status \notin {"approved", "shipped"} THEN 400
    ELSE 200

DeliverCode(i, role) ==
    IF ~get_current_admin_or_warehouse_user(role) THEN 403
    ELSE IF ~InvoiceExists(i) THEN 404
    ELSE IF invoices[i].status # "shipped" THEN 400
    ELSE 200

DeliverInvoice(i, role) ==
    LET code == DeliverCode(i, role)
    IN  /\ last' = Response("deliver", i, role, code, "")
        /\ invoices' = IF code = 200 THEN [invoices EXCEPT ![i].status = "delivered"]
                       ELSE invoices
        /\ UNCHANGED <<items, ledger, checks, products, next_item_id, next_tx_id, qtyVars, cartVars, raceVars, balanceVars, readVars, panelVars>>

-----------------------------------------------------------------------------
(* cancel_invoice, invoices.py 581-656 *)

\* cancel_invoice returning no stock for an invoice still with the accountant
CancelReturnStatusesAfterApproval == {"approved", "shipped", "delivered"}

\* line 627: the statuses whose cancellation returns the stock
CancelReturnStatuses == {"warehouse_pending", "accountant_pending", "approved",
                         "shipped", "delivered"}

CancelCode(i, role) ==
    IF role \notin {"admin", "accountant"} THEN 403
    ELSE IF ~InvoiceExists(i) THEN 404
    ELSE IF invoices[i].status = "cancelled" THEN 400
    ELSE 200

CancelInvoice(i, role) ==
    LET code == CancelCode(i, role)
        rows == IF invoices[i].status \in CancelReturnStatuses
                THEN LedgerRows(InvoiceItems(items, i), i, "return", 1)
                ELSE <<>>
    IN  IF code # 200
        THEN /\ last' = Response("cancel", i, role, code, "")
             /\ UNCHANGED <<storeVars, qtyVars, cartVars, raceVars, balanceVars, readVars, panelVars>>
        ELSE /\ ledger' = ledger \o rows
             /\ next_tx_id' = next_tx_id + Len(rows)
             /\ invoices' = [invoices EXCEPT ![i].status = "cancelled"]
             /\ last' = Response("cancel", i, role, 200, "")
             /\ UNCHANGED <<items, checks, products, next_item_id, qtyVars, cartVars, raceVars, balanceVars, readVars, panelVars>>

-----------------------------------------------------------------------------
(* products.py: update_product 493-725 (is_available), delete_product 728-805 *)

UpdateProduct(p, is_available, role) ==
    LET code == IF ~get_current_admin_or_warehouse_user(role) THEN 403
                ELSE IF ~ProductExists(p) THEN 404
                ELSE 200
    IN  /\ last' = Response("update_product", p, role, code, "")
        /\ products' = IF code = 200 THEN [products EXCEPT ![p].is_available = is_available]
                       ELSE products
        /\ UNCHANGED <<invoices, items, ledger, checks, next_item_id, next_tx_id, qtyVars, cartVars, raceVars, balanceVars, readVars, panelVars>>

DeleteProduct(p, role) ==
    LET code == IF ~get_current_admin_or_warehouse_user(role) THEN 403
                ELSE IF ~ProductExists(p) THEN 404
                ELSE 200
    IN  IF code # 200
        THEN /\ last' = Response("delete_product", p, role, code, "")
             /\ UNCHANGED <<storeVars, qtyVars, cartVars, raceVars, balanceVars, readVars, panelVars>>
        ELSE /\ items' = SelectSeq(items, LAMBDA it : it.product_id # p)
             /\ ledger' = SelectSeq(ledger, LAMBDA tx : tx.product_id # p)
             /\ products' = [products EXCEPT ![p].exists = FALSE]
             /\ last' = Response("delete_product", p, role, 200, "")
             /\ cart_items' = SelectSeq(cart_items, LAMBDA ci : ci.product_id # p)
             /\ UNCHANGED <<invoices, checks, next_item_id, next_tx_id, qtyVars, variant, carts, raceVars, balanceVars, readVars, panelVars>>

-----------------------------------------------------------------------------
(* create_inventory_transaction, inventory.py 44-76 *)

CreateInventoryTransaction(tx, role) ==
    LET code == IF ~get_current_admin_or_warehouse_user(role) THEN 403
                ELSE IF ~ProductExists(tx.product_id) THEN 404
                ELSE 200
    IN  IF code # 200
        THEN /\ last' = Response("create_inventory_transaction", 0, role, code, "")
             /\ UNCHANGED <<storeVars, qtyVars, cartVars, raceVars, balanceVars, readVars, panelVars>>
        ELSE /\ ledger' = Append(ledger,
                    [id |-> next_tx_id,
                     product_id |-> tx.product_id,
                     change_quantity |-> tx.change_quantity,
                     reason |-> tx.reason,
                     reference_id |-> tx.reference_id])
             /\ next_tx_id' = next_tx_id + 1
             /\ last' = Response("create_inventory_transaction", next_tx_id, role, 200, "")
             /\ UNCHANGED <<invoices, items, checks, products, next_item_id, qtyVars, cartVars, raceVars, balanceVars, readVars, panelVars>>

-----------------------------------------------------------------------------
(* checks.py: create_check 54-105, update_check 135-180, delete_check      *)
(* 183-203.  A field of CheckUpdate is unset (None here), or set to a      *)
(* value: Some(v); related_invoice_id may be set to null: Some(None).      *)

CreateCheckCode(check_in, role) ==
    IF ~get_current_admin_or_accountant_user(role) THEN 403
    ELSE IF check_in.customer_id \notin CustomerIds THEN 404
    ELSE IF IsSome(check_in.related_invoice_id)
         THEN IF ~InvoiceExists(Val(check_in.related_invoice_id)) THEN 404
              ELSE IF invoices[Val(check_in.related_invoice_id)].customer_id
                        # check_in.customer_id THEN 400
              ELSE 200
    ELSE 200

CreateCheck(check_in, role) ==
    LET code == CreateCheckCode(check_in, role)
    IN  IF code # 200
        THEN /\ last' = Response("create_check", 0, role, code, "")
             /\ UNCHANGED <<storeVars, qtyVars, cartVars, raceVars, balanceVars, readVars, panelVars>>
        ELSE /\ checks' = Append(checks,
                    [alive |-> TRUE,
                     customer_id |-> check_in.customer_id,
                     related_invoice_id |-> check_in.related_invoice_id])
             /\ last' = Response("create_check", Len(checks) + 1, role, 200, "")
             /\ UNCHANGED <<invoices, items, ledger, products, next_item_id, next_tx_id, qtyVars, cartVars, raceVars, balanceVars, readVars, panelVars>>

\* lines 155-170: the related invoice is looked up only when the request
\* carries a (non-null) related_invoice_id
UpdateCheckCode(c, check_in, role) ==
    IF ~get_current_admin_or_accountant_user(role) THEN 403
    ELSE IF ~CheckExists(c) THEN 404
    ELSE IF IsSome(check_in.related_invoice_id) /\ IsSome(Val(check_in.related_invoice_id))
         THEN IF ~InvoiceExists(Val(Val(check_in.related_invoice_id))) THEN 404
              ELSE IF invoices[Val(Val(check_in.related_invoice_id))].customer_id
                        # checks[c].customer_id THEN 400
              ELSE 200
    ELSE 200

\* lines 172-175: setattr for every field the request sets
UpdateCheck(c, check_in, role) ==
    LET code == UpdateCheckCode(c, check_in, role)
    IN  /\ last' = Response("update_check", c, role, code, "")
        /\ checks' = IF code # 200 THEN checks
                     ELSE [checks EXCEPT
                            ![c].customer_id =
                                IF IsSome(check_in.customer_id)
                                THEN Val(check_in.customer_id) ELSE @,
                            ![c].related_invoice_id =
                                IF IsSome(check_in.related_invoice_id)
                                THEN Val(check_in.related_invoice_id) ELSE @]
        /\ UNCHANGED <<invoices, items, ledger, products, next_item_id, next_tx_id, qtyVars, cartVars, raceVars, balanceVars, readVars, panelVars>>

DeleteCheck(c, role) ==
    LET code == IF role # "admin" THEN 403
                ELSE IF ~CheckExists(c) THEN 404
                ELSE 200
    IN  /\ last' = Response("delete_check", c, role, code, "")
        /\ checks' = IF code = 200 THEN [checks EXCEPT ![c].alive = FALSE] ELSE checks
        /\ UNCHANGED <<invoices, items, ledger, products, next_item_id, next_tx_id, qtyVars, cartVars, raceVars, balanceVars, readVars, panelVars>>

-----------------------------------------------------------------------------
(* Product variants and public carts: products.py update_product 580-633,  *)
(* carts.py submit_cart 80-250, calculate_order_details 15-77.             *)
(* A list column that is NULL and one that is empty are both <<>>: every   *)
(* test of the handlers is a truth test, which treats them alike.  An      *)
(* absent selected_color is "".                                            *)

\* the variant columns of a seeded product: none is set
NoVariant ==
    [is_series |-> FALSE, series_numbers |-> <<>>, series_inventory |-> <<>>,
     available_colors |-> <<>>, color_inventory |-> <<>>]

\* x in seq
Contains(seq, x) == \E k \in 1..Len(seq) : seq[k] = x

\* seq.index(x), counted from 1
IndexOf(seq, x) ==
    CHOOSE k \in 1..Len(seq) : seq[k] = x /\ \A j \in 1..(k - 1) : seq[j] # x

\* the number of occurrences of x in seq
CountOf(seq, x) == Cardinality({k \in 1..Len(seq) : seq[k] = x})

\* the product row after the assignments of lines 580-620: a field of the
\* form that is not None replaces the column
MergedVariant(p, form) ==
    [f \in DOMAIN NoVariant |->
        IF IsSome(form[f]) THEN Val(form[f]) ELSE variant[p][f]]

UpdateProductVariantCode(p, form, role) ==
    IF ~get_current_admin_or_warehouse_user(role) THEN 403
    ELSE IF ~ProductExists(p) THEN 404
    ELSE LET new == MergedVariant(p, form)
         IN  IF new.is_series
             THEN IF new.series_inventory = <<>> \/ new.series_numbers = <<>>
                  THEN 400 ELSE 200
             ELSE IF /\ new.available_colors # <<>>
                     /\ new.color_inventory # <<>>
                     /\ Len(new.available_colors) # Len(new.color_inventory)
                  THEN 400 ELSE 200

\* update_product called with variant fields only
UpdateProductVariant(p, form, role) ==
    LET code == UpdateProductVariantCode(p, form, role)
    IN  /\ last' = Response("update_product", p, role, code, "")
        /\ variant' = IF code = 200 THEN [variant EXCEPT ![p] = MergedVariant(p, form)]
                      ELSE variant
        /\ UNCHANGED <<storeVars, qtyVars, carts, cart_items, raceVars, balanceVars, readVars, panelVars>>

\* variant of SeriesCheck without the test of lines 140-144: an empty
\* selection passes
SeriesCheckSelectionOptional(item, v) ==
    IF v.series_numbers = <<>> THEN Result(400, "series_undefined")
    ELSE IF \E k \in 1..Len(item.selected_series) :
                ~Contains(v.series_numbers, item.selected_series[k])
         THEN Result(400, "series_not_offered")
    ELSE IF /\ v.series_inventory # <<>>
            /\ \E k \in 1..Len(item.selected_series) :
                  LET s == item.selected_series[k]
                      series_index == IndexOf(v.series_numbers, s)
                  IN  /\ series_index <= Len(v.series_inventory)
                      /\ CountOf(item.selected_series, s) > v.series_inventory[series_index]
         THEN Result(400, "insufficient_series_stock")
    ELSE Ok

\* submit_cart lines 135-179: a series product
SeriesCheck(item, v) ==
    IF item.selected_series = <<>> THEN Result(400, "series_required")
    ELSE IF v.series_numbers = <<>> THEN Result(400, "series_undefined")
    ELSE IF \E k \in 1..Len(item.selected_series) :
                ~Contains(v.series_numbers, item.selected_series[k])
         THEN Result(400, "series_not_offered")
    ELSE IF /\ v.series_inventory # <<>>
            /\ \E k \in 1..Len(item.selected_series) :
                  LET s == item.selected_series[k]
                      series_index == IndexOf(v.series_numbers, s)
                  IN  /\ series_index <= Len(v.series_inventory)
                      /\ CountOf(item.selected_series, s) > v.series_inventory[series_index]
         THEN Result(400, "insufficient_series_stock")
    ELSE Ok

\* submit_cart lines 180-212: a product that is not a series product
ColorCheck(item, v) ==
    IF item.selected_color = "" THEN Result(400, "color_required")
    ELSE IF v.available_colors = <<>> THEN Result(400, "colors_undefined")
    ELSE IF ~Contains(v.available_colors, item.selected_color)
         THEN Result(400, "color_not_offered")
    ELSE IF /\ v.color_inventory # <<>>
            /\ LET color_index == IndexOf(v.available_colors, item.selected_color)
               IN  /\ color_index <= Len(v.color_inventory)
                   /\ item.quantity > v.color_inventory[color_index]
         THEN Result(400, "insufficient_color_stock")
    ELSE Ok

\* the checks of one cart item, lines 119-212
CartItemCheck(item) ==
    IF ~ProductExists(item.product_id) THEN Result(404, "product_not_found")
    ELSE IF ~products[item.product_id].is_available THEN Result(400, "product_unavailable")
    ELSE IF variant[item.product_id].is_series
         THEN SeriesCheck(item, variant[item.product_id])
         ELSE ColorCheck(item, variant[item.product_id])

\* the loop of line 118: the error of the first item that fails
RECURSIVE CartItemsCheck(_)
CartItemsCheck(reqItems) ==
    IF reqItems = <<>> THEN Ok
    ELSE IF CartItemCheck(Head(reqItems)) # Ok THEN CartItemCheck(Head(reqItems))
    ELSE CartItemsCheck(Tail(reqItems))

\* submit_cart: public, no role
SubmitCart(cart_in) ==
    LET res == CartItemsCheck(cart_in.items)
        id == Len(carts) + 1
        n == Len(cart_in.items)
    IN  IF res # Ok
        THEN /\ last' = Response("submit_cart", 0, "public", res.code, res.detail)
             /\ UNCHANGED <<storeVars, qtyVars, cartVars, raceVars, balanceVars, readVars, panelVars>>
        ELSE /\ carts' = Append(carts,
                    [total_amount |-> SumSeq([k \in 1..n |->
                            cart_in.items[k].quantity * cart_in.items[k].price]),
                     status |-> "pending",
                     customer_id |-> None])
             /\ cart_items' = cart_items \o [k \in 1..n |->
                    [cart_id |-> id,
                     product_id |-> cart_in.items[k].product_id,
                     quantity |-> cart_in.items[k].quantity,
                     price |-> cart_in.items[k].price,
                     selected_series |-> cart_in.items[k].selected_series,
                     selected_color |-> cart_in.items[k].selected_color]]
             /\ last' = Response("submit_cart", id, "public", 200, "")
             /\ UNCHANGED <<storeVars, qtyVars, variant, raceVars, balanceVars, readVars, panelVars>>

\* the keys of Counter(seq), in the order of their first occurrence
RECURSIVE CounterKeys(_)
CounterKeys(seq) ==
    IF seq = <<>> THEN <<>>
    ELSE LET before == CounterKeys(SubSeq(seq, 1, Len(seq) - 1))
         IN  IF Contains(before, seq[Len(seq)]) THEN before
             ELSE Append(before, seq[Len(seq)])

\* d inserted into the sorted list ds, after the entries that are not larger
RECURSIVE InsertBySeriesNumber(_, _)
InsertBySeriesNumber(ds, d) ==
    IF ds = <<>> THEN <<d>>
    ELSE IF d.series_number < Head(ds).series_number THEN <<d>> \o ds
    ELSE <<Head(ds)>> \o InsertBySeriesNumber(Tail(ds), d)

\* series_details.sort(key=lambda x: x.series_number), line 38
RECURSIVE SortBySeriesNumber(_)
SortBySeriesNumber(ds) ==
    IF ds = <<>> THEN <<>>
    ELSE InsertBySeriesNumber(SortBySeriesNumber(SubSeq(ds, 1, Len(ds) - 1)), ds[Len(ds)])

\* variant of SeriesDetails without the sort of line 38: the details stay
\* in the order of first occurrence
SeriesDetailsUnsorted(cart_item) ==
    LET keys == CounterKeys(cart_item.selected_series)
    IN  [k \in 1..Len(keys) |->
            [series_number |-> keys[k],
             quantity |-> [num |-> cart_item.quantity
                                     * CountOf(cart_item.selected_series, keys[k]),
                           den |-> Len(cart_item.selected_series)]]]

\* lines 22-40: quantity_per_series * count is the fraction
\* (quantity * count) / len(selected_series), kept as [num, den]
SeriesDetails(cart_item) ==
    LET keys == CounterKeys(cart_item.selected_series)
    IN  SortBySeriesNumber([k \in 1..Len(keys) |->
            [series_number |-> keys[k],
             quantity |-> [num |-> cart_item.quantity
                                     * CountOf(cart_item.selected_series, keys[k]),
                           den |-> Len(cart_item.selected_series)]]])

\* the OrderItemDetail of one cart item, lines 18-75
OrderItemDetail(cart_item) ==
    IF variant[cart_item.product_id].is_series
    THEN [is_series |-> TRUE,
          total_quantity |-> cart_item.quantity,
          series_details |-> IF cart_item.selected_series # <<>>
                             THEN Some(SeriesDetails(cart_item)) ELSE Some(<<>>),
          color_detail |-> None]
    ELSE [is_series |-> FALSE,
          total_quantity |-> cart_item.quantity,
          series_details |-> None,
          color_detail |-> IF cart_item.selected_color # ""
                           THEN Some([color |-> cart_item.selected_color,
                                      quantity |-> cart_item.quantity])
                           ELSE None]

calculate_order_details(its) == [k \in 1..Len(its) |-> OrderItemDetail(its[k])]

-----------------------------------------------------------------------------
(* Requests the model sends *)

\* an item of InvoiceCreate.items
Item(p, q, price, rc, ppr, dr) ==
    [product_id |-> p, quantity |-> q, price |-> price,
     rolls_count |-> rc, pieces_per_roll |-> ppr, detailed_rolls |-> dr]

\* InvoiceCreate
InvoiceCreate(c, pt, chk, its) ==
    [customer_id |-> c, payment_type |-> pt, check_id |-> chk, items |-> its]

\* an item of InvoiceReserveUpdate.items
Edit(id, q, price, dr) ==
    [id |-> id, quantity |-> q, price |-> price, detailed_rolls |-> dr]

\* lists of at most two elements of S
ShortLists(S) == {<<>>} \cup {<<a>> : a \in S} \cup {<<a, b>> : a \in S, b \in S}

\* items of the three quantity forms; the fourth has a piece of -1 in a
\* roll whose sum is positive; the last three are rejected (quantity 0,
\* rolls_count without pieces_per_roll, product 3 missing)
LifecycleItems ==
    { Item(1, 1, 2, None, None, None),
      Item(2, 1, 1, Some(1), Some(2), None),
      Item(2, 1, 1, Some(3), Some(3), Some(<< <<1, 1>> >>)),
      Item(2, 1, 1, None, None, Some(<< <<3, -1>> >>)),
      Item(1, 0, 1, None, None, None),
      Item(2, 1, 1, Some(1), None, None),
      Item(3, 1, 1, None, None, None) }

LifecycleRequests ==
    {InvoiceCreate(1, "cash", None, its) : its \in ShortLists(LifecycleItems)}
    \cup {InvoiceCreate(3, "cash", None, <<Item(1, 1, 2, None, None, None)>>)}

\* edits of one item: the first two are applied, the third changes nothing
\* (empty detailed_rolls), the others are rejected
EditsOf(id) ==
    { Edit(id, Some(3), Some(3), None),
      Edit(id, Some(1), Some(3), Some(<< <<1>>, <<1, 1>> >>)),
      Edit(id, Some(3), None, Some(<<>>)),
      Edit(id, Some(0), None, None),
      Edit(id, None, Some(-1), None),
      Edit(id, None, None, Some(<< <<1, 0>> >>)) }

\* InvoiceReserveUpdate.items: no edit, one edit, or an applied edit of the
\* first item followed by any edit of a later id
ReserveUpdates ==
    {<<>>}
    \cup {<<e>> : e \in UNION {EditsOf(id) : id \in 1..next_item_id}}
    \cup {<<Edit(1, Some(3), Some(3), None), e>> :
            e \in UNION {EditsOf(id) : id \in 2..next_item_id}}

TrackingInfos == {"EXP-1", "EXP-2"}

InventoryTransactionCreates ==
    {[product_id |-> p, change_quantity |-> 1, reason |-> "return",
      reference_id |-> Some(1)] : p \in {1, 3}}

-----------------------------------------------------------------------------
(* The store after start-up: customers and products exist, nothing else.   *)

NoResponse == Response("none", 0, "none", 0, "")

\* the clients whose create_invoice requests may overlap
Clients == {"a", "b"}

\* a client with no customer-panel request in flight
IdlePanel ==
    [pc |-> "idle", op |-> "none", customer |-> 0, cart |-> 0,
     item |-> [product_id |-> 0, quantity |-> 0, price |-> 0,
               selected_series |-> <<>>, selected_color |-> ""],
     item_id |-> 0,
     edit |-> [quantity |-> None, price |-> None,
               selected_series |-> None, selected_color |-> None],
     resp |-> NoResponse]

\* a client with no request in flight
IdleClient ==
    [pc |-> "idle",
     req |-> [customer_id |-> 0, payment_type |-> "cash", check_id |-> None, items |-> <<>>],
     role |-> "none", number |-> 0, resp |-> NoResponse]

\* the database before the first request
EmptyStore ==
    /\ invoices = <<>>
    /\ items = <<>>
    /\ ledger = <<>>
    /\ checks = <<>>
    /\ products = [p \in ProductIds |-> [exists |-> TRUE, is_available |-> TRUE]]
    /\ next_item_id = 1
    /\ next_tx_id = 1
    /\ last = NoResponse
    /\ variant = [p \in ProductIds |-> NoVariant]
    /\ carts = <<>>
    /\ cart_items = <<>>
    /\ race = [c \in Clients |-> IdleClient]
    /\ customers = [c \in CustomerIds |-> [current_balance |-> 0, balance_notes |-> <<>>]]
    /\ balance_log = [c \in CustomerIds |-> <<>>]
    /\ seen = {}
    /\ panel = [c \in Clients |-> IdlePanel]

Init ==
    /\ EmptyStore
    /\ qin = Item(1, 1, 1, None, None, None)
    /\ qout = None

\* Requests are handled one at a time: the next one is sent when the
\* response of the last one has been returned.
Idle == last = NoResponse

\* the response is returned and the request's session closed
Return ==
    /\ last # NoResponse
    /\ last' = NoResponse
    /\ UNCHANGED <<storeVars, qtyVars, cartVars, raceVars, balanceVars, readVars, panelVars>>

\* the bounds of the model: a request that would grow a table past its
\* bound is not sent
WithinBounds ==
    /\ Len(invoices') <= MaxInvoices
    /\ Len(ledger') <= MaxLedger
    /\ Len(checks') <= MaxChecks

InvoiceIds == 1..(Len(invoices) + 1)

Next ==
    \/ Return
    \/ /\ Idle
       /\ \E req \in LifecycleRequests, role \in UserRole :
             CreateInvoice(req, role) /\ WithinBounds
    \/ /\ Idle
       /\ \E i \in InvoiceIds, edits \in ReserveUpdates, role \in UserRole :
             ReserveInvoiceStock(i, edits, role) /\ WithinBounds
    \/ /\ Idle
       /\ \E i \in InvoiceIds, role \in UserRole : ApproveInvoice(i, role)
    \/ /\ Idle
       /\ \E i \in InvoiceIds, t \in TrackingInfos, role \in UserRole :
             ShipInvoice(i, t, role) /\ WithinBounds
    \/ /\ Idle
       /\ \E i \in InvoiceIds, role \in UserRole : DeliverInvoice(i, role)
    \/ /\ Idle
       /\ \E i \in InvoiceIds, role \in UserRole : CancelInvoice(i, role) /\ WithinBounds
    \/ /\ Idle
       /\ \E a \in BOOLEAN, role \in UserRole : UpdateProduct(2, a, role)
    \/ /\ Idle
       /\ \E p \in ProductIds, role \in UserRole : DeleteProduct(p, role)

Spec == Init /\ [][Next]_vars

-----------------------------------------------------------------------------
(* Check linkage: create_invoice with every payment type, and the check    *)
(* endpoints.                                                              *)

\* item lists that create_invoice rejects: product 3 missing, quantity 0,
\* and a valid item followed by one without pieces_per_roll
RejectedItemLists ==
    { <<Item(3, 1, 1, None, None, None)>>,
      <<Item(1, 0, 1, None, None, None)>>,
      <<Item(1, 1, 1, None, None, None), Item(1, 1, 1, Some(1), None, None)>> }

CheckRequests ==
    {InvoiceCreate(c, pt, chk, <<Item(1, 1, 1, None, None, None)>>) :
        c \in CustomerIds \cup {3},
        pt \in PaymentType,
        chk \in {None} \cup {Some(k) : k \in 1..(Len(checks) + 1)}}
    \cup {InvoiceCreate(1, "check", Some(1), its) : its \in RejectedItemLists}

\* CheckCreate
CheckCreates ==
    {[customer_id |-> c, related_invoice_id |-> r] :
        c \in CustomerIds \cup {3},
        r \in {None} \cup {Some(i) : i \in InvoiceIds}}

\* CheckUpdate: each field unset, or set
CheckUpdates ==
    {[customer_id |-> c, related_invoice_id |-> r] :
        c \in {None} \cup {Some(k) : k \in CustomerIds},
        r \in {None, Some(None)} \cup {Some(Some(i)) : i \in InvoiceIds}}

WithinCheckBounds ==
    /\ Len(invoices') <= MaxLinkedInvoices
    /\ Len(checks') <= MaxChecks

CheckIds == 1..(Len(checks) + 1)

NextChecks ==
    \/ Return
    \/ /\ Idle
       /\ \E req \in CheckRequests, role \in UserRole :
             CreateInvoice(req, role) /\ WithinCheckBounds
    \/ /\ Idle
       /\ \E check_in \in CheckCreates, role \in UserRole :
             CreateCheck(check_in, role) /\ WithinCheckBounds
    \/ /\ Idle
       /\ \E c \in CheckIds, check_in \in CheckUpdates, role \in UserRole :
             UpdateCheck(c, check_in, role)
    \/ /\ Idle
       /\ \E c \in CheckIds, role \in UserRole : DeleteCheck(c, role)
    \/ /\ Idle
       /\ \E a \in BOOLEAN, role \in UserRole : UpdateProduct(1, a, role)

SpecChecks == Init /\ [][NextChecks]_vars

-----------------------------------------------------------------------------
(* Effective quantity as a function of the requested item: every form of   *)
(* the item is resolved as create_invoice resolves it.                     *)

QtyItems ==
    {Item(1, q, 1, rc, ppr, dr) :
        q \in {-1, 0, 1, 2},
        rc \in {None, Some(0), Some(2)},
        ppr \in {None, Some(1), Some(3)},
        dr \in {None, Some(<<>>), Some(<< <<>> >>), Some(<< <<1, 2>> >>),
                Some(<< <<1>>, <<2, 3>> >>), Some(<< <<2, -1>> >>)}}

InitQty ==
    /\ EmptyStore
    /\ qin \in QtyItems
    /\ qout = None

\* lines 117-137 of create_invoice for the item qin
ResolveQuantity ==
    /\ qout = None
    /\ qout' = Some(EffectiveQuantity(qin))
    /\ UNCHANGED <<storeVars, last, qin, cartVars, raceVars, balanceVars, readVars, panelVars>>

\* the next item of the request
NextItem ==
    /\ qout # None
    /\ qin' \in QtyItems
    /\ qout' = None
    /\ UNCHANGED <<storeVars, last, cartVars, raceVars, balanceVars, readVars, panelVars>>

NextQty == ResolveQuantity \/ NextItem

SpecQty == InitQty /\ [][NextQty]_vars

-----------------------------------------------------------------------------
(* Properties of the invoice lifecycle (checked under Spec)                *)

\* the transition table of the invoice state machine: who may invoke a
\* transition, and from which statuses
TransitionRoles ==
    [reserve |-> {"admin", "warehouse"},
     approve |-> {"admin", "accountant"},
     ship    |-> {"admin", "warehouse"},
     deliver |-> {"admin", "warehouse"},
     cancel  |-> {"admin", "accountant"}]

TransitionPrecondition ==
    [reserve |-> {"warehouse_pending", "accountant_pending"},
     approve |-> {"accountant_pending"},
     ship    |-> {"approved"},
     deliver |-> {"shipped"},
     cancel  |-> InvoiceStatus \ {"cancelled"}]

\* C1: a guarded transition (reserve, approve, ship, deliver, cancel) that
\* a caller of the transition's role invokes on an existing invoice whose
\* status is outside the transition's precondition set is answered with
\* the validation error (400) and changes neither the invoice (status,
\* totals, tracking_info), nor its items, nor the inventory ledger.
C1_GuardedTransitionRejected ==
    [][\A op \in DOMAIN TransitionPrecondition :
          (/\ last'.op = op
           /\ last'.role \in TransitionRoles[op]
           /\ InvoiceExists(last'.id)
           /\ invoices[last'.id].status \notin TransitionPrecondition[op])
          => /\ last'.code = 400
             /\ invoices' = invoices
             /\ items' = items
             /\ ledger' = ledger]_vars

\* an accountant's approve of an invoice still in warehouse_pending was
\* answered with 400
C1_Witness ==
    /\ last.op = "approve"
    /\ last.role = "accountant"
    /\ last.code = 400
    /\ InvoiceExists(last.id)
    /\ invoices[last.id].status = "warehouse_pending"

StatusOrder ==
    <<"draft", "warehouse_pending", "accountant_pending", "approved", "shipped",
      "delivered">>

\* one step forward, or a cancellation of an invoice not yet cancelled
LegalStatusChange(old, new) ==
    \/ old # "cancelled" /\ new = "cancelled"
    \/ \E k \in 1..(Len(StatusOrder) - 1) :
          old = StatusOrder[k] /\ new = StatusOrder[k + 1]

\* C2: in every step, the status of every invoice either stays as it is
\* (reserve may leave accountant_pending in place), moves one step forward
\* along warehouse_pending -> accountant_pending -> approved -> shipped ->
\* delivered, or becomes cancelled from a status other than cancelled; it
\* never moves backward, skips a step, or changes once cancelled.
C2_StatusMovesOneStep ==
    [][\A i \in 1..Len(invoices) :
          /\ i \in 1..Len(invoices')
          /\ invoices'[i].status # invoices[i].status
                => LegalStatusChange(invoices[i].status, invoices'[i].status)]_vars

\* an invoice that went all the way to shipped and was then cancelled
C2_Witness ==
    \E i \in 1..Len(invoices) :
        /\ invoices[i].status = "cancelled"
        /\ IsSome(invoices[i].tracking_info)

\* the ledger rows of one reason that refer to invoice i
RowsOf(i, reason) ==
    {k \in 1..Len(ledger) :
        ledger[k].reason = reason /\ ledger[k].reference_id = Some(i)}

\* C3: a cancel (by admin or accountant) of an invoice in accountant_pending,
\* approved, shipped or delivered succeeds and appends to the ledger exactly
\* one `return` row per item of the invoice, with change_quantity =
\* +item.quantity and reference_id = the invoice id, whatever the number of
\* reserves before it; a cancel of a cancelled invoice appends no row.
C3_CancelReturnsOncePerItem ==
    [][\A i \in 1..Len(invoices) :
          (last'.op = "cancel" /\ last'.id = i /\ last'.role \in TransitionRoles.cancel)
          => LET its == InvoiceItems(items, i)
                 n == Len(its)
                 m == Len(ledger)
             IN  /\ invoices[i].status \in
                        {"accountant_pending", "approved", "shipped", "delivered"}
                    => /\ last'.code = 200
                       /\ Len(ledger') = m + n
                       /\ SubSeq(ledger', 1, m) = ledger
                       /\ \A k \in 1..n :
                             /\ ledger'[m + k].reason = "return"
                             /\ ledger'[m + k].product_id = its[k].product_id
                             /\ ledger'[m + k].change_quantity = its[k].quantity
                             /\ ledger'[m + k].reference_id = Some(i)
                 /\ invoices[i].status = "cancelled" => ledger' = ledger]_vars

\* an invoice of one item, reserved twice, then cancelled: two reservation
\* rows and one return row
C3_Witness ==
    /\ last.op = "cancel"
    /\ last.code = 200
    /\ Len(InvoiceItems(items, last.id)) = 1
    /\ Cardinality(RowsOf(last.id, "sale_reservation")) = 2
    /\ Cardinality(RowsOf(last.id, "return")) = 1

\* C4: a reserve answered with 200 leaves the items of the invoice with
\* the requested edits applied (a non-empty detailed_rolls sets the
\* quantity to the sum of its pieces; without detailed_rolls a requested
\* quantity is stored; a requested price is stored), subtotal = total =
\* sum of quantity x price over the items, exactly one `sale_reservation`
\* row appended per item with change_quantity = -(post-edit quantity) and
\* reference_id = the invoice id, and the status accountant_pending.
C4_ReserveAppliesEditsAndRecords ==
    [][\A i \in 1..Len(invoices), edits \in ReserveUpdates :
          (/\ last'.op = "reserve" /\ last'.code = 200
           /\ ReserveInvoiceStock(i, edits, last'.role))
          => LET its == InvoiceItems(items', i)
                 n == Len(its)
                 m == Len(ledger)
             IN  /\ \A e \in {edits[k] : k \in 1..Len(edits)} :
                       \E j \in 1..n :
                          /\ its[j].id = e.id
                          /\ IsSome(e.detailed_rolls) /\ Val(e.detailed_rolls) # <<>>
                                => its[j].quantity = SumSeq(Flatten(Val(e.detailed_rolls)))
                          /\ ~IsSome(e.detailed_rolls) /\ IsSome(e.quantity)
                                => its[j].quantity = Val(e.quantity)
                          /\ IsSome(e.price) => its[j].price = Val(e.price)
                 /\ invoices'[i].subtotal = ItemsTotal(items', i)
                 /\ invoices'[i].total = ItemsTotal(items', i)
                 /\ Len(ledger') = m + n
                 /\ SubSeq(ledger', 1, m) = ledger
                 /\ \A k \in 1..n :
                       /\ ledger'[m + k].reason = "sale_reservation"
                       /\ ledger'[m + k].product_id = its[k].product_id
                       /\ ledger'[m + k].change_quantity = -its[k].quantity
                       /\ ledger'[m + k].reference_id = Some(i)
                 /\ invoices'[i].status = "accountant_pending"]_vars

\* C5: in every reachable state the stored subtotal and total of every
\* invoice equal the sum of quantity x price over its current items.
C5_TotalsMatchItems ==
    \A i \in 1..Len(invoices) :
        /\ invoices[i].subtotal = ItemsTotal(items, i)
        /\ invoices[i].total = ItemsTotal(items, i)

\* the effective quantity of a requested item, as the contract states it
ContractQuantity(item) ==
    IF item.detailed_rolls \notin {None, Some(<<>>)}
    THEN SumSeq(Flatten(Val(item.detailed_rolls)))
    ELSE IF item.rolls_count # None
         THEN Val(item.rolls_count) * Val(item.pieces_per_roll)
         ELSE item.quantity

\* C6: a create_invoice answered with 200 adds one invoice, in status
\* warehouse_pending, with subtotal = total = sum over the requested items
\* of effective quantity x price, and one item row per requested item, in
\* order, whose quantity is the effective quantity; the ledger is unchanged.
C6_CreateYieldsWarehousePending ==
    [][\A req \in LifecycleRequests :
          (/\ last'.op = "create_invoice" /\ last'.code = 200
           /\ CreateInvoice(req, last'.role))
          => LET id == Len(invoices) + 1
                 n == Len(req.items)
                 its == InvoiceItems(items', id)
                 sum == SumSeq([k \in 1..n |->
                            ContractQuantity(req.items[k]) * req.items[k].price])
             IN  /\ Len(invoices') = id
                 /\ SubSeq(invoices', 1, id - 1) = invoices
                 /\ invoices'[id].status = "warehouse_pending"
                 /\ invoices'[id].subtotal = sum
                 /\ invoices'[id].total = sum
                 /\ Len(its) = n
                 /\ \A k \in 1..n :
                       /\ its[k].product_id = req.items[k].product_id
                       /\ its[k].quantity = ContractQuantity(req.items[k])
                       /\ its[k].price = req.items[k].price
                 /\ ledger' = ledger]_vars

\* an invoice just created from a plain item (1 x 2) and an item given in
\* rolls (1 roll of 2 pieces, price 1): total 4, no ledger row
C6_Witness ==
    /\ last.op = "create_invoice"
    /\ last.code = 200
    /\ invoices[last.id].status = "warehouse_pending"
    /\ Len(InvoiceItems(items, last.id)) = 2
    /\ \E k \in 1..Len(items) : items[k].product_id = 2 /\ items[k].quantity = 2
    /\ invoices[last.id].total = 4
    /\ ledger = <<>>

-----------------------------------------------------------------------------
(* The effective quantity (checked under SpecQty)                          *)

\* C10: the effective quantity of a requested item is: the sum of all
\* piece measurements when detailed_rolls is non-empty (also when
\* rolls_count is present); else rolls_count x pieces_per_roll when
\* rolls_count is present, the item being rejected when pieces_per_roll is
\* missing; else the raw quantity.
C10_QuantityPriority ==
    IsSome(qout) =>
        LET r == Val(qout)
            detailed == IsSome(qin.detailed_rolls) /\ Len(Val(qin.detailed_rolls)) > 0
        IN  /\ detailed
                => r.ok /\ r.q = SumSeq(Flatten(Val(qin.detailed_rolls)))
            /\ ~detailed /\ IsSome(qin.rolls_count) /\ IsSome(qin.pieces_per_roll)
                => r.ok /\ r.q = Val(qin.rolls_count) * Val(qin.pieces_per_roll)
            /\ ~detailed /\ IsSome(qin.rolls_count) /\ ~IsSome(qin.pieces_per_roll)
                => ~r.ok
            /\ ~detailed /\ ~IsSome(qin.rolls_count)
                => r.ok /\ r.q = qin.quantity

\* an item with detailed_rolls (pieces 1 and 2) and rolls_count 2 of 3
\* pieces resolved to 3
C10_Witness ==
    /\ qin.detailed_rolls = Some(<< <<1, 2>> >>)
    /\ qin.rolls_count = Some(2)
    /\ qin.pieces_per_roll = Some(3)
    /\ qout = Some([ok |-> TRUE, q |-> 3])

-----------------------------------------------------------------------------
(* Properties of the check linkage (checked under SpecChecks)              *)

\* the request names a check that exists and is linked to an invoice
ReferencesLinkedCheck(req) ==
    /\ IsSome(req.check_id)
    /\ CheckExists(Val(req.check_id))
    /\ IsSome(checks[Val(req.check_id)].related_invoice_id)

\* the request is not rejected for its caller, its customer or a missing
\* product (403 and 404 come before every validation error)
Admitted(req, role) ==
    /\ role \in {"admin", "accountant"}
    /\ req.customer_id \in CustomerIds
    /\ \A k \in 1..Len(req.items) : ProductExists(req.items[k].product_id)

\* C7, as stated: every create_invoice whose check_id names a check that
\* is already linked is rejected (with the validation error when caller
\* and customer are accepted) and creates no invoice, no item, and leaves
\* the checks as they are.
C7_AnyReferenceRejected ==
    [][\A req \in CheckRequests :
          (/\ last'.op = "create_invoice"
           /\ ReferencesLinkedCheck(req)
           /\ CreateInvoice(req, last'.role))
          => /\ last'.code # 200
             /\ Admitted(req, last'.role) => last'.code = 400
             /\ invoices' = invoices
             /\ items' = items
             /\ checks' = checks]_vars

\* C7: every create_invoice with payment_type check or mixed whose
\* check_id names a check that is already linked is rejected (with the
\* validation error when caller and customer are accepted) and creates no
\* invoice, no item, and leaves the checks as they are.
C7_CheckPaymentReferenceRejected ==
    [][\A req \in CheckRequests :
          (/\ last'.op = "create_invoice"
           /\ req.payment_type \in {"check", "mixed"}
           /\ ReferencesLinkedCheck(req)
           /\ CreateInvoice(req, last'.role))
          => /\ last'.code # 200
             /\ Admitted(req, last'.role) => last'.code = 400
             /\ invoices' = invoices
             /\ items' = items
             /\ checks' = checks]_vars

\* a create_invoice was rejected because its check is linked, and the
\* check is still linked to the invoice it was linked to
C7_Witness ==
    /\ last.op = "create_invoice"
    /\ last.code = 400
    /\ last.detail = "check_already_linked"
    /\ \E c \in 1..Len(checks) :
          CheckExists(c) /\ checks[c].related_invoice_id = Some(1)

\* C8: in every step, a check that is linked to an invoice before the step
\* and linked after it is linked to the same invoice.
C8_LinkNeverReassigned ==
    [][\A c \in 1..Len(checks) :
          (/\ CheckExists(c)
           /\ IsSome(checks[c].related_invoice_id)
           /\ IsSome(checks'[c].related_invoice_id))
          => checks'[c].related_invoice_id = checks[c].related_invoice_id]_vars

\* C9: in every reachable state, every check with related_invoice_id set
\* has the customer_id of the invoice it points to.
C9_LinkedCheckOfSameCustomer ==
    \A c \in 1..Len(checks) :
        (CheckExists(c) /\ IsSome(checks[c].related_invoice_id))
        => /\ InvoiceExists(Val(checks[c].related_invoice_id))
           /\ invoices[Val(checks[c].related_invoice_id)].customer_id
                 = checks[c].customer_id

-----------------------------------------------------------------------------
(* Quantities of the stored items (checked under Spec)                     *)

\* every piece measurement of a detailed_rolls value (absent: none) is > 0
PiecesPositive(dr) ==
    IsSome(dr) => \A k \in 1..Len(Flatten(Val(dr))) : Flatten(Val(dr))[k] > 0

\* C11: after every step every stored invoice item has quantity > 0, and
\* neither an accepted create_invoice nor an accepted reserve carries a
\* detailed_rolls with a piece measurement that is not > 0.
C11_QuantityAndPiecesPositive ==
    [][/\ \A k \in 1..Len(items') : items'[k].quantity > 0
       /\ \A req \in LifecycleRequests :
             (/\ last'.op = "create_invoice" /\ last'.code = 200
              /\ CreateInvoice(req, last'.role))
             => \A k \in 1..Len(req.items) : PiecesPositive(req.items[k].detailed_rolls)
       /\ \A i \in 1..Len(invoices), edits \in ReserveUpdates :
             (/\ last'.op = "reserve" /\ last'.code = 200
              /\ ReserveInvoiceStock(i, edits, last'.role))
             => \A k \in 1..Len(edits) : PiecesPositive(edits[k].detailed_rolls)]_vars

-----------------------------------------------------------------------------
(* The inventory ledger (checked under Spec)                               *)

\* C12: the ledger is append-only: in every step every row of the ledger
\* is still there, unchanged and in its place; rows are only added.
C12_LedgerAppendOnly ==
    [][/\ Len(ledger') >= Len(ledger)
       /\ SubSeq(ledger', 1, Len(ledger)) = ledger]_vars

-----------------------------------------------------------------------------
(* Public carts: update_product on the variant columns of product 1,       *)
(* submit_cart, delete_product.                                            *)

\* the variant fields of the form of update_product
VariantForm(is_series, numbers, inventory, colors, color_inventory) ==
    [is_series |-> is_series, series_numbers |-> numbers,
     series_inventory |-> inventory, available_colors |-> colors,
     color_inventory |-> color_inventory]

\* series lists of equal and of unequal length, is_series alone, colors
\* with an inventory, with a shorter one (rejected), and without one
VariantForms ==
    { VariantForm(Some(TRUE), Some(<<1, 2, 3>>), Some(<<2, 1, 3>>), None, None),
      VariantForm(Some(TRUE), Some(<<1, 2, 3>>), Some(<<2>>), None, None),
      VariantForm(Some(TRUE), None, None, None, None),
      VariantForm(Some(FALSE), None, None, Some(<<"red", "blue">>), Some(<<2, 1>>)),
      VariantForm(Some(FALSE), None, None, Some(<<"red", "blue">>), Some(<<2>>)),
      VariantForm(Some(FALSE), None, None, Some(<<"red">>), Some(<<>>)) }

\* CartItemCreate
CartItem(p, q, price, series, color) ==
    [product_id |-> p, quantity |-> q, price |-> price,
     selected_series |-> series, selected_color |-> color]

Selections ==
    { <<>>, <<1>>, <<2>>, <<3>>, <<1, 1, 2>>, <<2, 1, 1>>, <<1, 1, 1>>, <<2, 2>>,
      <<3, 3, 3>>, <<3, 1, 2>>, <<4>>, <<1, 4>> }

Colors == {"", "red", "blue", "green"}

CartItems ==
    {CartItem(1, 6, 1, sel, "") : sel \in Selections}
    \cup {CartItem(1, q, 2, <<>>, c) : q \in {1, 3}, c \in Colors}
    \cup { CartItem(1, 6, 1, <<1>>, "red"),
           CartItem(2, 1, 1, <<>>, "red"),
           CartItem(3, 1, 1, <<1>>, "red") }

\* items accepted by some variant of product 1, and items rejected by all
AcceptableItems == {CartItem(1, 6, 1, <<1, 1, 2>>, ""), CartItem(1, 1, 2, <<>>, "red")}

RejectedItems ==
    { CartItem(1, 6, 1, <<>>, ""), CartItem(1, 6, 1, <<4>>, ""),
      CartItem(1, 6, 1, <<1, 1, 1>>, ""), CartItem(1, 1, 2, <<>>, "green") }

\* CartCreate: one item, or two items with the second or the first rejected
CartCreates ==
    {[items |-> <<a>>] : a \in CartItems}
    \cup {[items |-> <<a, b>>] : a \in AcceptableItems, b \in AcceptableItems \cup RejectedItems}
    \cup {[items |-> <<b, a>>] : a \in AcceptableItems, b \in RejectedItems}

WithinCartBounds == Len(carts') <= MaxCarts

NextCart ==
    \/ Return
    \/ /\ Idle
       /\ \E form \in VariantForms, role \in UserRole : UpdateProductVariant(1, form, role)
    \/ /\ Idle
       /\ \E cart_in \in CartCreates : SubmitCart(cart_in) /\ WithinCartBounds
    \/ /\ Idle
       /\ \E p \in ProductIds, role \in UserRole : DeleteProduct(p, role)

SpecCart == Init /\ [][NextCart]_vars

-----------------------------------------------------------------------------
(* create_invoice as overlapping requests: each await on the database is   *)
(* a point where another request may run. The steps of one request are     *)
(* the validation (lines 97-176), the choice of the number (178-195) and   *)
(* the insertion with its commits (197-244).                               *)

\* lines 97-176: the dependency on the role and the validation
ValidateCreate(c, req, role) ==
    LET res == CreateInvoiceResult(req, role)
    IN  /\ race[c].pc = "idle"
        /\ race' = [race EXCEPT ![c] =
              IF res # Ok
              THEN [pc |-> "done", req |-> req, role |-> role, number |-> 0,
                    resp |-> Response("create_invoice", 0, role, res.code, res.detail)]
              ELSE [pc |-> "validated", req |-> req, role |-> role, number |-> 0,
                    resp |-> NoResponse]]
        /\ UNCHANGED <<storeVars, last, qtyVars, cartVars, balanceVars, readVars, panelVars>>

\* lines 178-195: the number after the last committed invoice number
NumberCreate(c) ==
    /\ race[c].pc = "validated"
    /\ race' = [race EXCEPT ![c].pc = "numbered", ![c].number = NewInvoiceNumber]
    /\ UNCHANGED <<storeVars, last, qtyVars, cartVars, balanceVars, readVars, panelVars>>

\* lines 197-244: the insertion. invoice_number is unique (models/invoice.py
\* 12): inserting a number that is committed raises IntegrityError, which
\* no handler of create_invoice catches; the session is closed without a
\* commit (session.py 11-17) and global_exception_handler answers 500
\* (main.py 43-49).
CommitCreate(c) ==
    LET req == race[c].req
        role == race[c].role
        id == Len(invoices) + 1
        n == Len(req.items)
        subtotal == SumSeq([k \in 1..n |->
                        EffectiveQuantity(req.items[k]).q * req.items[k].price])
    IN  /\ race[c].pc = "numbered"
        /\ IF race[c].number \in InvoiceNumbers
           THEN /\ race' = [race EXCEPT ![c].pc = "done",
                       ![c].resp = Response("create_invoice", 0, role, 500, "internal_error")]
                /\ UNCHANGED <<storeVars, last, qtyVars, cartVars, balanceVars, readVars, panelVars>>
           ELSE /\ invoices' = Append(invoices,
                       [customer_id |-> req.customer_id,
                        status |-> InitialStatus,
                        subtotal |-> subtotal,
                        total |-> subtotal,
                        payment_type |-> req.payment_type,
                        tracking_info |-> None,
                        number |-> race[c].number])
                /\ items' = items \o [k \in 1..n |->
                       [id |-> next_item_id + k - 1,
                        invoice_id |-> id,
                        product_id |-> req.items[k].product_id,
                        quantity |-> EffectiveQuantity(req.items[k]).q,
                        price |-> req.items[k].price]]
                /\ next_item_id' = next_item_id + n
                /\ checks' = IF /\ req.payment_type \in {"check", "mixed"}
                                /\ IsSome(req.check_id)
                                /\ CheckExists(Val(req.check_id))
                             THEN [checks EXCEPT
                                     ![Val(req.check_id)].related_invoice_id = Some(id)]
                             ELSE checks
                /\ race' = [race EXCEPT ![c].pc = "done",
                       ![c].resp = Response("create_invoice", id, role, 200, "")]
                /\ UNCHANGED <<ledger, products, next_tx_id, last, qtyVars, cartVars, balanceVars, readVars, panelVars>>

\* the response is returned and the client may send its next request
ReturnCreate(c) ==
    /\ race[c].pc = "done"
    /\ race' = [race EXCEPT ![c] = IdleClient]
    /\ UNCHANGED <<storeVars, last, qtyVars, cartVars, balanceVars, readVars, panelVars>>

\* InvoiceCreate of the overlapping requests: customer 3 does not exist
RaceRequests ==
    {InvoiceCreate(c, pt, chk, <<Item(1, 1, 1, None, None, None)>>) :
        c \in {1, 3}, pt \in {"cash", "check"}, chk \in {None, Some(1)}}

NextRace ==
    \/ Return
    \/ /\ Idle
       /\ \E check_in \in CheckCreates, role \in UserRole :
             CreateCheck(check_in, role) /\ WithinCheckBounds
    \/ \E c \in Clients, req \in RaceRequests, role \in UserRole : ValidateCreate(c, req, role)
    \/ \E c \in Clients : NumberCreate(c)
    \/ \E c \in Clients : CommitCreate(c) /\ WithinCheckBounds
    \/ \E c \in Clients : ReturnCreate(c)

SpecRace == Init /\ [][NextRace]_vars

-----------------------------------------------------------------------------
(* Properties of the public cart (checked under SpecCart)                  *)

\* the series product has the stock for the selection: every selected
\* series number has an entry in series_inventory, at its index in
\* series_numbers, that is at least its number of occurrences
SeriesStockSuffices(sel, v) ==
    \A k \in 1..Len(sel) :
        /\ Contains(v.series_numbers, sel[k])
        /\ IndexOf(v.series_numbers, sel[k]) <= Len(v.series_inventory)
        /\ CountOf(sel, sel[k]) <= v.series_inventory[IndexOf(v.series_numbers, sel[k])]

\* C13: a submitted cart is accepted only if every item of a series
\* product has the stock for its selection; a cart of one item of an
\* available series product whose selection is offered but exceeds the
\* stock is rejected with the insufficient-stock validation error.
C13_SeriesStockChecked ==
    [][\A cart_in \in CartCreates :
          (last'.op = "submit_cart" /\ SubmitCart(cart_in))
          => /\ last'.code = 200
                => \A k \in 1..Len(cart_in.items) :
                      variant[cart_in.items[k].product_id].is_series
                      => SeriesStockSuffices(cart_in.items[k].selected_series,
                                             variant[cart_in.items[k].product_id])
             /\ LET item == cart_in.items[1]
                    v == variant[item.product_id]
                IN  (/\ Len(cart_in.items) = 1
                     /\ ProductExists(item.product_id)
                     /\ products[item.product_id].is_available
                     /\ v.is_series
                     /\ item.selected_series # <<>>
                     /\ \A k \in 1..Len(item.selected_series) :
                           Contains(v.series_numbers, item.selected_series[k])
                     /\ ~SeriesStockSuffices(item.selected_series, v))
                    => /\ last'.code = 400
                       /\ last'.detail = "insufficient_series_stock"]_vars

\* the item breaks the mode match of its product: a series product without
\* a selection or with a series it does not offer, a color product without
\* a color or with a color it does not offer
Offending(item) ==
    LET v == variant[item.product_id]
    IN  /\ ProductExists(item.product_id)
        /\ IF v.is_series
           THEN \/ item.selected_series = <<>>
                \/ \E k \in 1..Len(item.selected_series) :
                      ~Contains(v.series_numbers, item.selected_series[k])
           ELSE \/ item.selected_color = ""
                \/ ~Contains(v.available_colors, item.selected_color)

\* C14: a cart with an offending item at any position is rejected and no
\* Cart row and no CartItem row is stored; the rejection is the validation
\* error (400) when every item names an existing product.
C14_OffendingItemRejectsWholeCart ==
    [][\A cart_in \in CartCreates :
          (/\ last'.op = "submit_cart"
           /\ \E k \in 1..Len(cart_in.items) : Offending(cart_in.items[k])
           /\ SubmitCart(cart_in))
          => /\ last'.code # 200
             /\ carts' = carts
             /\ cart_items' = cart_items
             /\ (\A k \in 1..Len(cart_in.items) : ProductExists(cart_in.items[k].product_id))
                => last'.code = 400]_vars

\* a cart was rejected for a missing or unoffered selection of a series
\* product, and nothing is stored
C14_Witness ==
    /\ last.op = "submit_cart"
    /\ last.code = 400
    /\ last.detail \in {"series_required", "series_not_offered"}
    /\ variant[1].is_series
    /\ carts = <<>>
    /\ cart_items = <<>>

\* the series numbers of the details are strictly ascending
StrictlyAscending(ds) ==
    \A k \in 1..(Len(ds) - 1) : ds[k].series_number < ds[k + 1].series_number

\* C15: for every stored cart item of a series product with a selection,
\* the breakdown lists exactly the distinct selected series, each once, in
\* ascending order, each with the quantity (quantity / len) x count, and
\* the quantities sum to the item's quantity; an item of a color product
\* with a color gives that color the full quantity.
C15_OrderDetailBreakdown ==
    \A i \in 1..Len(cart_items) :
        LET ci == cart_items[i]
            d == OrderItemDetail(ci)
            sel == ci.selected_series
        IN  /\ (variant[ci.product_id].is_series /\ sel # <<>>)
               => LET ds == Val(d.series_details)
                  IN  /\ StrictlyAscending(ds)
                      /\ {ds[k].series_number : k \in 1..Len(ds)}
                            = {sel[k] : k \in 1..Len(sel)}
                      /\ \A k \in 1..Len(ds) :
                            /\ ds[k].quantity.den = Len(sel)
                            /\ ds[k].quantity.num
                                  = ci.quantity * CountOf(sel, ds[k].series_number)
                      /\ SumSeq([k \in 1..Len(ds) |-> ds[k].quantity.num])
                            = d.total_quantity * Len(sel)
                      /\ d.total_quantity = ci.quantity
            /\ (~variant[ci.product_id].is_series /\ ci.selected_color # "")
               => /\ IsSome(d.color_detail)
                  /\ Val(d.color_detail).color = ci.selected_color
                  /\ Val(d.color_detail).quantity = ci.quantity
                  /\ d.series_details = None

\* a stored item of a series product whose selection is not in ascending
\* order (and, for <<2, 1, 1>>, repeats a series)
C15_Witness ==
    \E i \in 1..Len(cart_items) :
        /\ variant[cart_items[i].product_id].is_series
        /\ cart_items[i].selected_series \in {<<2, 1, 1>>, <<3, 1, 2>>}

-----------------------------------------------------------------------------
(* Shipping, failed reservations, failed creations and roles (under Spec)  *)

\* the signed sum of the ledger
LedgerSum(l) == SumSeq([k \in 1..Len(l) |-> l[k].change_quantity])

\* C16: a successful ship of an approved invoice appends one `shipping`
\* row per item of the invoice, in item order, with change_quantity 0 and
\* reference_id the invoice id, stores the supplied tracking_info, sets the
\* status to shipped, changes no item and leaves the ledger's sum unchanged.
C16_ShipRecordsMarkersOnly ==
    [][\A i \in 1..Len(invoices), t \in TrackingInfos :
          (/\ last'.op = "ship" /\ last'.code = 200 /\ last'.id = i
           /\ ShipInvoice(i, t, last'.role))
          => LET its == InvoiceItems(items, i)
             IN  /\ invoices[i].status = "approved"
                 /\ Len(ledger') = Len(ledger) + Len(its)
                 /\ SubSeq(ledger', 1, Len(ledger)) = ledger
                 /\ \A k \in 1..Len(its) :
                       LET row == ledger'[Len(ledger) + k]
                       IN  /\ row.reason = "shipping"
                           /\ row.change_quantity = 0
                           /\ row.reference_id = Some(i)
                           /\ row.product_id = its[k].product_id
                 /\ invoices'[i].status = "shipped"
                 /\ invoices'[i].tracking_info = Some(t)
                 /\ items' = items
                 /\ LedgerSum(ledger') = LedgerSum(ledger)]_vars

\* an invoice of two items was shipped: two shipping rows refer to it
C16_Witness ==
    /\ last.op = "ship"
    /\ last.code = 200
    /\ invoices[last.id].status = "shipped"
    /\ Len(InvoiceItems(items, last.id)) = 2
    /\ Cardinality(RowsOf(last.id, "shipping")) = 2

\* C17: a reserve request that fails leaves the items, the invoices (their
\* subtotal, total and status) and the ledger exactly as they were, also
\* when edits before the failing one were applicable.
C17_FailedReserveChangesNothing ==
    [][(last'.op = "reserve" /\ last'.code # 200)
        => /\ items' = items
           /\ invoices' = invoices
           /\ ledger' = ledger
           /\ next_tx_id' = next_tx_id]_vars

\* a reserve by an allowed role on a reservable invoice failed on an
\* unknown item id in its edits, and nothing was recorded
C17_Witness ==
    /\ last.op = "reserve"
    /\ last.code = 404
    /\ get_current_admin_or_warehouse_user(last.role)
    /\ InvoiceExists(last.id)
    /\ invoices[last.id].status \in ReserveStatuses
    /\ Len(InvoiceItems(items, last.id)) = 2
    /\ RowsOf(last.id, "sale_reservation") = {}

\* the roles the claim allows for each operation on an invoice
AllowedRoles ==
    [create_invoice |-> {"admin", "accountant"},
     approve        |-> {"admin", "accountant"},
     cancel         |-> {"admin", "accountant"},
     reserve        |-> {"admin", "warehouse"},
     ship           |-> {"admin", "warehouse"},
     deliver        |-> {"admin", "warehouse"}]

\* C20: create, approve and cancel succeed only for admin or accountant,
\* reserve, ship and deliver only for admin or warehouse; a call by another
\* role is answered with the authorization error (403) and changes no
\* invoice, no item, no ledger row and no check.
C20_RolesGuardInvoiceOperations ==
    [][\A op \in DOMAIN AllowedRoles :
          last'.op = op
          => /\ last'.code = 200 => last'.role \in AllowedRoles[op]
             /\ last'.role \notin AllowedRoles[op]
                => /\ last'.code = 403
                   /\ invoices' = invoices
                   /\ items' = items
                   /\ ledger' = ledger
                   /\ checks' = checks]_vars

\* an accountant's ship of an approved invoice was answered with 403 and
\* the invoice is still approved
C20_Witness ==
    /\ last.op = "ship"
    /\ last.code = 403
    /\ last.role = "accountant"
    /\ InvoiceExists(last.id)
    /\ invoices[last.id].status = "approved"
    /\ RowsOf(last.id, "shipping") = {}

-----------------------------------------------------------------------------
(* Failed creations (under SpecChecks)                                     *)

\* C19: a create_invoice that is rejected (missing customer, missing or
\* unavailable product, effective quantity not positive, failed check
\* precondition) creates no invoice row, no invoice item and no ledger row
\* and modifies no check.
C19_RejectedCreateChangesNothing ==
    [][(last'.op = "create_invoice" /\ last'.code # 200)
        => /\ invoices' = invoices
           /\ items' = items
           /\ ledger' = ledger
           /\ checks' = checks
           /\ next_item_id' = next_item_id]_vars

\* create_invoice was rejected for an unavailable product while an invoice
\* and a check existed
C19_Witness ==
    /\ last.op = "create_invoice"
    /\ last.detail = "product_unavailable"
    /\ checks # <<>>
    /\ invoices # <<>>

-----------------------------------------------------------------------------
(* Overlapping creations (under SpecRace)                                  *)

\* the request of client c is about to lose: the number it chose has been
\* committed by another request
LosesOnDuplicate(c) ==
    race[c].pc = "numbered" /\ race[c].number \in InvoiceNumbers

\* C18: no two invoices share an invoice number, and a create_invoice
\* that fails on a duplicate number persists no invoice row, no invoice
\* item and no check link and is answered with a conflict (409).
C18_DuplicateNumberRolledBackAsConflict ==
    /\ [](\A i, j \in 1..Len(invoices) :
            invoices[i].number = invoices[j].number => i = j)
    /\ [][\A c \in Clients :
            (LosesOnDuplicate(c) /\ race'[c].pc = "done")
            => /\ invoices' = invoices
               /\ items' = items
               /\ checks' = checks
               /\ race'[c].resp.code = 409]_vars

-----------------------------------------------------------------------------
(* The variant lists of a product (under SpecCart)                         *)

\* C24: in every reachable state a series product has as many
\* series_inventory entries as series_numbers, and a product that is not a
\* series product has as many color_inventory entries as available_colors.
C24_VariantListsOfEqualLength ==
    \A p \in ProductIds :
        IF variant[p].is_series
        THEN Len(variant[p].series_numbers) = Len(variant[p].series_inventory)
        ELSE Len(variant[p].available_colors) = Len(variant[p].color_inventory)

-----------------------------------------------------------------------------
(* The ledger of a cancelled invoice (under Spec)                          *)

\* the signed sum of the ledger rows of invoice i for product p
LedgerSumOf(i, p) ==
    SumSeq([k \in 1..Len(ledger) |->
              IF ledger[k].reference_id = Some(i) /\ ledger[k].product_id = p
              THEN ledger[k].change_quantity ELSE 0])

\* C27: for every cancelled invoice and every product, the ledger rows
\* that refer to the invoice sum to zero: the returns of cancel offset the
\* reservations of reserve exactly.
C27_CancelledInvoiceLedgerSumsToZero ==
    \A i \in 1..Len(invoices), p \in ProductIds :
        invoices[i].status = "cancelled" => LedgerSumOf(i, p) = 0

-----------------------------------------------------------------------------
(* Stock taken by carts (under SpecCart)                                   *)

\* the number of units of series s of product p taken by the cart items
\* in its
SeriesTaken(its, p, s) ==
    SumSeq([k \in 1..Len(its) |->
              IF its[k].product_id = p THEN CountOf(its[k].selected_series, s) ELSE 0])

\* the quantity of color c of product p taken by the cart items in its
ColorTaken(its, p, c) ==
    SumSeq([k \in 1..Len(its) |->
              IF its[k].product_id = p /\ its[k].selected_color = c
              THEN its[k].quantity ELSE 0])

\* C28: when a cart submission is accepted, the units taken by the stored
\* cart items from each series of a series product, and the quantity taken
\* from each color of a color product with a color inventory, do not
\* exceed the product's inventory for that series or color.
C28_NeverOversell ==
    [][(last'.op = "submit_cart" /\ last'.code = 200)
        => \A p \in ProductIds :
              LET v == variant[p]
              IN  IF v.is_series
                  THEN \A n \in 1..Len(v.series_inventory) :
                          n <= Len(v.series_numbers)
                          => SeriesTaken(cart_items', p, v.series_numbers[n])
                                <= v.series_inventory[n]
                  ELSE \A n \in 1..Len(v.color_inventory) :
                          n <= Len(v.available_colors)
                          => ColorTaken(cart_items', p, v.available_colors[n])
                                <= v.color_inventory[n]]_vars

-----------------------------------------------------------------------------
(* Overlapping creations that name the same check (under SpecRace)         *)

\* C30: every invoice with payment_type check or mixed has a check linked to
\* it, so that a check is the payment instrument of at most one created
\* invoice.
C30_CheckPaysAtMostOneInvoice ==
    \A i \in 1..Len(invoices) :
        invoices[i].payment_type \in {"check", "mixed"}
        => \E c \in 1..Len(checks) :
              checks[c].alive /\ checks[c].related_invoice_id = Some(i)

-----------------------------------------------------------------------------
(* Invoice numbers of one Persian year: create_invoice called one request  *)
(* at a time, started from a year in which n invoices were created before, *)
(* around the places where the rendered number gains a digit.              *)

\* the numbers of invoices created earlier in the year
YearStarts == {0, 9, 99, 999}

\* the number of invoices each behaviour adds to a start
MaxNewInvoices == 2

\* the invoices of the year after n creations without items by customer 1
InvoicesOfYear(n) ==
    [k \in 1..n |->
        [customer_id |-> 1,
         status |-> InitialStatus,
         subtotal |-> 0,
         total |-> 0,
         payment_type |-> "cash",
         tracking_info |-> None,
         number |-> k]]

InitNumber ==
    /\ invoices \in {InvoicesOfYear(n) : n \in YearStarts}
    /\ items = <<>>
    /\ ledger = <<>>
    /\ checks = <<>>
    /\ products = [p \in ProductIds |-> [exists |-> TRUE, is_available |-> TRUE]]
    /\ next_item_id = 1
    /\ next_tx_id = 1
    /\ last = NoResponse
    /\ qin = Item(1, 1, 1, None, None, None)
    /\ qout = None
    /\ variant = [p \in ProductIds |-> NoVariant]
    /\ carts = <<>>
    /\ cart_items = <<>>
    /\ race = [c \in Clients |-> IdleClient]
    /\ customers = [c \in CustomerIds |-> [current_balance |-> 0, balance_notes |-> <<>>]]
    /\ balance_log = [c \in CustomerIds |-> <<>>]
    /\ seen = {}
    /\ panel = [c \in Clients |-> IdlePanel]

\* InvoiceCreate of the numbering runs: customer 3 does not exist
NumberRequests ==
    {InvoiceCreate(c, "cash", None, its) :
        c \in {1, 3},
        its \in {<<>>, <<Item(1, 1, 1, None, None, None)>>}}

WithinYearBounds ==
    Len(invoices') \in UNION {n..(n + MaxNewInvoices) : n \in YearStarts}

NextNumber ==
    \/ Return
    \/ /\ Idle
       /\ \E req \in NumberRequests, role \in UserRole :
             CreateInvoice(req, role) /\ WithinYearBounds

SpecNumber == InitNumber /\ [][NextNumber]_vars

\* the largest number of a non-empty set
NumericMax(S) == CHOOSE n \in S : \A m \in S : m <= n

\* C29: a create_invoice that passes its validation, called when no other
\* request is in flight, succeeds and gives the new invoice the number 1
\* when the year has no invoice and the numeric maximum of the year's
\* numbers plus one otherwise, a number no invoice of the year has.
C29_NumberIsNumericMaximumPlusOne ==
    [][(last'.op = "create_invoice" /\ last'.code \notin {400, 403, 404})
        => /\ last'.code = 200
           /\ Len(invoices') = Len(invoices) + 1
           /\ invoices'[Len(invoices')].number =
                 IF InvoiceNumbers = {} THEN 1 ELSE NumericMax(InvoiceNumbers) + 1
           /\ invoices'[Len(invoices')].number \notin InvoiceNumbers]_vars

-----------------------------------------------------------------------------
(* Customer balance, customers.py 452-535.  current_balance is a whole     *)
(* amount of rials; balance_notes is the sequence of its lines ("\n"       *)
(* joins them), empty for NULL and for "".  balance_log[c] is history: the *)
(* accepted adjust and set requests of customer c, oldest first, after the *)
(* balance the row was created with.                                       *)

\* the balances a customer row is created with (CustomerCreate.current_balance)
InitialBalances == {0, 5}

\* balance_update.balance_adjustment, balance_set.new_balance
BalanceAmounts == {-1, 0, 2}

\* notes: None, or a non-empty line
BalanceNotes == {None, Some("n1"), Some("n2")}

\* the accepted balance requests of one behaviour
MaxBalanceOps == 3

\* if notes: balance_notes += "\n" + notes if balance_notes else notes
AppendNotes(balance_notes, notes) ==
    IF notes = None THEN balance_notes ELSE Append(balance_notes, Val(notes))

BalanceEntry(op, amount, notes) == [op |-> op, amount |-> amount, notes |-> notes]

\* the balance is overwritten with the adjustment
AdjustBalanceOverwriting(c, delta, notes, role) ==
    LET code == IF ~get_current_admin_or_accountant_user(role) THEN 403
                ELSE IF c \notin CustomerIds THEN 404
                ELSE 200
    IN  /\ last' = Response("adjust_balance", c, role, code, "")
        /\ customers' =
              IF code = 200
              THEN [customers EXCEPT
                      ![c] = [current_balance |-> delta,
                              balance_notes |-> AppendNotes(@.balance_notes, notes)]]
              ELSE customers
        /\ balance_log' =
              IF code = 200
              THEN [balance_log EXCEPT ![c] = Append(@, BalanceEntry("adjust", delta, notes))]
              ELSE balance_log
        /\ UNCHANGED <<storeVars, qtyVars, cartVars, raceVars, readVars, panelVars>>

\* adjust_customer_balance, 452-492
AdjustBalance(c, delta, notes, role) ==
    LET code == IF ~get_current_admin_or_accountant_user(role) THEN 403
                ELSE IF c \notin CustomerIds THEN 404
                ELSE 200
    IN  /\ last' = Response("adjust_balance", c, role, code, "")
        /\ customers' =
              IF code = 200
              THEN [customers EXCEPT
                      ![c] = [current_balance |-> @.current_balance + delta,
                              balance_notes |-> AppendNotes(@.balance_notes, notes)]]
              ELSE customers
        /\ balance_log' =
              IF code = 200
              THEN [balance_log EXCEPT ![c] = Append(@, BalanceEntry("adjust", delta, notes))]
              ELSE balance_log
        /\ UNCHANGED <<storeVars, qtyVars, cartVars, raceVars, readVars, panelVars>>

\* set_customer_balance, 495-535
SetBalance(c, new_balance, notes, role) ==
    LET code == IF ~get_current_admin_or_accountant_user(role) THEN 403
                ELSE IF c \notin CustomerIds THEN 404
                ELSE 200
    IN  /\ last' = Response("set_balance", c, role, code, "")
        /\ customers' =
              IF code = 200
              THEN [customers EXCEPT
                      ![c] = [current_balance |-> new_balance,
                              balance_notes |-> AppendNotes(@.balance_notes, notes)]]
              ELSE customers
        /\ balance_log' =
              IF code = 200
              THEN [balance_log EXCEPT ![c] = Append(@, BalanceEntry("set", new_balance, notes))]
              ELSE balance_log
        /\ UNCHANGED <<storeVars, qtyVars, cartVars, raceVars, readVars, panelVars>>

\* the customer rows as create_customer left them
InitAdjust ==
    /\ invoices = <<>>
    /\ items = <<>>
    /\ ledger = <<>>
    /\ checks = <<>>
    /\ products = [p \in ProductIds |-> [exists |-> TRUE, is_available |-> TRUE]]
    /\ next_item_id = 1
    /\ next_tx_id = 1
    /\ last = NoResponse
    /\ qin = Item(1, 1, 1, None, None, None)
    /\ qout = None
    /\ variant = [p \in ProductIds |-> NoVariant]
    /\ carts = <<>>
    /\ cart_items = <<>>
    /\ race = [c \in Clients |-> IdleClient]
    /\ \E b \in InitialBalances :
          /\ customers = [c \in CustomerIds |-> [current_balance |-> b, balance_notes |-> <<>>]]
          /\ balance_log = [c \in CustomerIds |-> <<BalanceEntry("create", b, None)>>]
    /\ seen = {}
    /\ panel = [c \in Clients |-> IdlePanel]

\* the two create entries apart, at most MaxBalanceOps entries are logged
WithinBalanceBounds ==
    SumSeq([c \in 1..2 |-> Len(balance_log'[c])]) <= 2 + MaxBalanceOps

\* customer 3 does not exist; customer 2 receives no request
NextAdjust ==
    \/ Return
    \/ /\ Idle
       /\ \E c \in {1, 3}, a \in BalanceAmounts, n \in BalanceNotes, role \in UserRole :
             AdjustBalance(c, a, n, role) /\ WithinBalanceBounds
    \/ /\ Idle
       /\ \E c \in {1, 3}, a \in BalanceAmounts, n \in BalanceNotes, role \in UserRole :
             SetBalance(c, a, n, role) /\ WithinBalanceBounds

SpecAdjust == InitAdjust /\ [][NextAdjust]_vars

\* the index of the last entry of log that fixes the balance (create or set)
LastFixed(log) ==
    IF \E k \in 1..Len(log) : log[k].op # "adjust"
    THEN CHOOSE k \in 1..Len(log) :
            /\ log[k].op # "adjust"
            /\ \A j \in (k + 1)..Len(log) : log[j].op = "adjust"
    ELSE 0

\* the last set value (or the initial balance) plus the later deltas
ExpectedBalance(log) ==
    LET k == LastFixed(log)
    IN  (IF k = 0 THEN 0 ELSE log[k].amount)
        + SumSeq([j \in 1..(Len(log) - k) |-> log[k + j].amount])

IsPrefix(s, t) == Len(s) <= Len(t) /\ \A k \in 1..Len(s) : t[k] = s[k]

\* C22: an accepted adjust adds its delta to current_balance and puts its
\* notes on a new line after the existing balance_notes, an accepted set
\* overwrites current_balance with new_balance, the previous notes stay a
\* prefix of the notes, and after every step the balance is the last set
\* value (or the initial balance) plus the sum of the deltas adjusted since.
C22_BalanceFollowsAdjustAndSet ==
    [][\A c \in CustomerIds :
          /\ customers'[c].current_balance = ExpectedBalance(balance_log'[c])
          /\ IsPrefix(customers[c].balance_notes, customers'[c].balance_notes)
          /\ (last'.op = "adjust_balance" /\ last'.code = 200 /\ last'.id = c)
             => LET e == balance_log'[c][Len(balance_log'[c])]
                IN  /\ e.op = "adjust"
                    /\ customers'[c].current_balance = customers[c].current_balance + e.amount
                    /\ customers'[c].balance_notes =
                          IF e.notes = None THEN customers[c].balance_notes
                          ELSE customers[c].balance_notes \o <<Val(e.notes)>>
          /\ (last'.op = "set_balance" /\ last'.code = 200 /\ last'.id = c)
             => LET e == balance_log'[c][Len(balance_log'[c])]
                IN  /\ e.op = "set"
                    /\ customers'[c].current_balance = e.amount]_vars

\* a set followed by two adjusts with notes has been accepted for customer 1
C22_Witness ==
    /\ last.op = "adjust_balance" /\ last.code = 200
    /\ Len(balance_log[1]) = 4
    /\ balance_log[1][2].op = "set" /\ balance_log[1][2].amount = 2
    /\ balance_log[1][3].op = "adjust" /\ balance_log[1][3].amount = -1
    /\ balance_log[1][4].op = "adjust" /\ balance_log[1][4].amount = 2
    /\ customers[1].current_balance = 3
    /\ customers[1].balance_notes = <<"n1", "n2">>

-----------------------------------------------------------------------------
(* The balance among the other operations: update_customer, the invoice    *)
(* lifecycle and the check endpoints next to adjust and set.               *)

\* CustomerUpdate: each of current_balance and balance_notes unset (None)
\* or set; the other fields are not modelled
CustomerUpdates ==
    {[current_balance |-> b, balance_notes |-> n] :
        b \in {None, Some(7)},
        n \in {None, Some(<<>>), Some(<<"u">>)}}

\* update_customer, customers.py 231-268: setattr of every field that was set
UpdateCustomer(c, customer_in, role) ==
    LET code == IF ~get_current_admin_or_accountant_user(role) THEN 403
                ELSE IF c \notin CustomerIds THEN 404
                ELSE 200
    IN  /\ last' = Response("update_customer", c, role, code, "")
        /\ customers' =
              IF code = 200
              THEN [customers EXCEPT
                      ![c] = [current_balance |->
                                 IF IsSome(customer_in.current_balance)
                                 THEN Val(customer_in.current_balance)
                                 ELSE @.current_balance,
                              balance_notes |->
                                 IF IsSome(customer_in.balance_notes)
                                 THEN Val(customer_in.balance_notes)
                                 ELSE @.balance_notes]]
              ELSE customers
        /\ UNCHANGED <<storeVars, qtyVars, cartVars, raceVars, balance_log, readVars, panelVars>>

BalanceRequests ==
    {InvoiceCreate(1, pt, chk, <<Item(1, 1, 1, None, None, None)>>) :
        pt \in {"cash", "check"}, chk \in {None, Some(1)}}

\* fewer balance requests than in SpecAdjust: the lifecycle multiplies them
WithinBalanceRequests == Len(balance_log'[1]) < MaxBalanceOps

NextBalance ==
    \/ Return
    \/ /\ Idle
       /\ \E req \in BalanceRequests, role \in UserRole :
             CreateInvoice(req, role) /\ WithinBounds
    \/ /\ Idle
       /\ \E i \in InvoiceIds, role \in UserRole :
             ReserveInvoiceStock(i, <<>>, role) /\ WithinBounds
    \/ /\ Idle
       /\ \E i \in InvoiceIds, role \in UserRole : ApproveInvoice(i, role)
    \/ /\ Idle
       /\ \E i \in InvoiceIds, role \in UserRole :
             ShipInvoice(i, "EXP-1", role) /\ WithinBounds
    \/ /\ Idle
       /\ \E i \in InvoiceIds, role \in UserRole : DeliverInvoice(i, role)
    \/ /\ Idle
       /\ \E i \in InvoiceIds, role \in UserRole : CancelInvoice(i, role) /\ WithinBounds
    \/ /\ Idle
       /\ \E role \in UserRole :
             CreateCheck([customer_id |-> 1, related_invoice_id |-> None], role)
             /\ WithinBounds
    \/ /\ Idle
       /\ \E c \in CheckIds, r \in {Some(None), Some(Some(1))}, role \in UserRole :
             UpdateCheck(c, [customer_id |-> None, related_invoice_id |-> r], role)
    \/ /\ Idle
       /\ \E c \in CheckIds, role \in UserRole : DeleteCheck(c, role)
    \/ /\ Idle
       /\ \E c \in {1, 3}, role \in UserRole :
             AdjustBalance(c, 2, Some("n1"), role) /\ WithinBalanceRequests
    \/ /\ Idle
       /\ \E c \in {1, 3}, role \in UserRole :
             SetBalance(c, -1, Some("n2"), role) /\ WithinBalanceRequests
    \/ /\ Idle
       /\ \E c \in {1, 3}, customer_in \in CustomerUpdates, role \in UserRole :
             UpdateCustomer(c, customer_in, role)

SpecBalance == Init /\ [][NextBalance]_vars

\* C23: every operation other than adjust and set, in particular every
\* invoice operation and every check operation, leaves current_balance and
\* balance_notes of every customer unchanged.
C23_BalanceChangedOnlyByAdjustAndSet ==
    [][last'.op \notin {"adjust_balance", "set_balance"} => customers' = customers]_vars

-----------------------------------------------------------------------------
(* Reading invoices, invoices.py 29-84 and 258-293, next to the lifecycle  *)
(* that gives them their statuses.                                         *)

WarehouseStatuses == {"warehouse_pending", "approved", "shipped"}

\* the role-based filter of read_invoices, 66-76
RoleFilter(role, status) ==
    IF role = "warehouse" THEN status \in WarehouseStatuses
    ELSE IF role = "accountant" THEN status # "draft"
    ELSE TRUE

\* read_invoices with the optional status filter and the default skip and
\* limit; the response's detail records the filter
ReadInvoices(st, role) ==
    /\ seen' = {i \in 1..Len(invoices) :
                  /\ st # None => invoices[i].status = Val(st)
                  /\ RoleFilter(role, invoices[i].status)}
    /\ last' = Response("read_invoices", 0, role, 200, IF st = None THEN "" ELSE Val(st))
    /\ UNCHANGED <<storeVars, qtyVars, cartVars, raceVars, balanceVars, panelVars>>

\* read_invoice without the role-based access control
ReadInvoiceUnrestricted(i, role) ==
    LET code == IF i \notin 1..Len(invoices) THEN 404
                ELSE 200
    IN  /\ last' = Response("read_invoice", i, role, code, "")
        /\ UNCHANGED <<storeVars, qtyVars, cartVars, raceVars, balanceVars, readVars, panelVars>>

\* read_invoice, 258-293
ReadInvoice(i, role) ==
    LET code == IF i \notin 1..Len(invoices) THEN 404
                ELSE IF role = "warehouse" /\ invoices[i].status \notin WarehouseStatuses
                     THEN 403
                ELSE 200
    IN  /\ last' = Response("read_invoice", i, role, code, "")
        /\ UNCHANGED <<storeVars, qtyVars, cartVars, raceVars, balanceVars, readVars, panelVars>>

ReadRequests ==
    {InvoiceCreate(1, "cash", None, <<Item(1, 1, 1, None, None, None)>>)}

\* the status query parameter
StatusFilters == {None, Some("approved"), Some("cancelled")}

WithinReadBounds ==
    /\ Len(invoices') <= MaxLinkedInvoices
    /\ Len(ledger') <= MaxLedger

NextRead ==
    \/ Return
    \/ /\ Idle
       /\ \E req \in ReadRequests, role \in UserRole :
             CreateInvoice(req, role) /\ WithinReadBounds
    \/ /\ Idle
       /\ \E i \in InvoiceIds, role \in UserRole :
             ReserveInvoiceStock(i, <<>>, role) /\ WithinReadBounds
    \/ /\ Idle
       /\ \E i \in InvoiceIds, role \in UserRole : ApproveInvoice(i, role)
    \/ /\ Idle
       /\ \E i \in InvoiceIds, role \in UserRole :
             ShipInvoice(i, "EXP-1", role) /\ WithinReadBounds
    \/ /\ Idle
       /\ \E i \in InvoiceIds, role \in UserRole : DeliverInvoice(i, role)
    \/ /\ Idle
       /\ \E i \in InvoiceIds, role \in UserRole :
             CancelInvoice(i, role) /\ WithinReadBounds
    \/ /\ Idle
       /\ \E st \in StatusFilters, role \in UserRole : ReadInvoices(st, role)
    \/ /\ Idle
       /\ \E i \in InvoiceIds, role \in UserRole : ReadInvoice(i, role)

SpecRead == Init /\ [][NextRead]_vars

\* C21: a warehouse user gets by listing and by id only invoices whose
\* status is warehouse_pending, approved or shipped; an accountant gets by
\* listing every invoice that matches the status filter and is not a draft,
\* and by id an existing invoice exactly when it is not a draft.
C21_RoleBasedVisibility ==
    [][/\ (last'.op = "read_invoices" /\ last'.role = "warehouse")
          => \A i \in seen' : invoices[i].status \in WarehouseStatuses
       /\ (last'.op = "read_invoice" /\ last'.role = "warehouse" /\ last'.code = 200)
          => invoices[last'.id].status \in WarehouseStatuses
       /\ (last'.op = "read_invoices" /\ last'.role = "accountant")
          => seen' = {i \in 1..Len(invoices) :
                        /\ invoices[i].status # "draft"
                        /\ last'.detail # "" => invoices[i].status = last'.detail}
       /\ (last'.op = "read_invoice" /\ last'.role = "accountant"
             /\ last'.id \in 1..Len(invoices))
          => (last'.code = 200 <=> invoices[last'.id].status # "draft")]_vars

\* a warehouse user listed the invoices and got one of the two: the other
\* is delivered or cancelled
C21_Witness ==
    /\ last.op = "read_invoices" /\ last.role = "warehouse" /\ last.detail = ""
    /\ Len(invoices) = 2
    /\ Cardinality(seen) = 1
    /\ \E i \in 1..2 : i \notin seen /\ invoices[i].status \in {"delivered", "cancelled"}

-----------------------------------------------------------------------------
(* The customer panel's cart, customer_panel.py 291-517, as overlapping    *)
(* requests of authenticated customers.  A request first selects the       *)
(* customer's cart (StartPanel), then inserts one where the handler does   *)
(* so (EnsureCart), then does the rest of its work (FinishPanel); another  *)
(* request may run between the steps.  The id of a cart or of a cart item  *)
(* is its position in carts or cart_items.                                 *)

\* the carts a behaviour may hold
MaxPanelCarts == 2

\* the cart items a behaviour may hold
MaxPanelItems == 1

\* select(Cart).where(Cart.customer_id == current_customer.id), first(): the
\* id of the customer's first cart, 0 when there is none
FirstCartOf(cu) ==
    IF \E k \in 1..Len(carts) : carts[k].customer_id = Some(cu)
    THEN CHOOSE k \in 1..Len(carts) :
            /\ carts[k].customer_id = Some(cu)
            /\ \A j \in 1..(k - 1) : carts[j].customer_id # Some(cu)
    ELSE 0

\* the checks of add_item_to_cart, 388-438
PanelItemCheck(item) ==
    IF ~ProductExists(item.product_id) \/ ~products[item.product_id].is_available
    THEN Result(404, "product_not_found")
    ELSE LET v == variant[item.product_id]
         IN  IF v.is_series
             THEN IF item.selected_series = <<>> THEN Result(400, "series_required")
                  ELSE IF v.series_inventory = <<>> \/ v.series_numbers = <<>>
                       THEN Result(400, "series_undefined")
                  ELSE IF \E k \in 1..Len(item.selected_series) :
                              ~Contains(v.series_numbers, item.selected_series[k])
                       THEN Result(400, "series_not_offered")
                  ELSE Ok
             ELSE IF item.selected_color = "" THEN Result(400, "color_required")
                  ELSE IF v.color_inventory = <<>> \/ v.available_colors = <<>>
                       THEN Result(400, "color_undefined")
                  ELSE IF ~Contains(v.available_colors, item.selected_color)
                       THEN Result(400, "color_not_offered")
                  ELSE Ok

\* update_cart_item 505-512: the fields of the edit that are not None
EditedItem(row, edit) ==
    [row EXCEPT
        !.quantity = IF IsSome(edit.quantity) THEN Val(edit.quantity) ELSE @,
        !.price = IF IsSome(edit.price) THEN Val(edit.price) ELSE @,
        !.selected_series = IF IsSome(edit.selected_series)
                            THEN Val(edit.selected_series) ELSE @,
        !.selected_color = IF IsSome(edit.selected_color)
                           THEN Val(edit.selected_color) ELSE @]

\* the request of client c is received and its first statement, the select
\* of the customer's cart, is executed
StartPanel(c, op, cu, item, item_id, edit) ==
    /\ panel[c].pc = "idle"
    /\ panel' = [panel EXCEPT
                    ![c] = [pc |-> "cart", op |-> op, customer |-> cu,
                            cart |-> FirstCartOf(cu), item |-> item,
                            item_id |-> item_id, edit |-> edit,
                            resp |-> NoResponse]]
    /\ UNCHANGED <<storeVars, last, qtyVars, cartVars, raceVars, balanceVars, readVars>>

\* if not cart: get_customer_cart 307-318 and add_item_to_cart 374-384
\* insert a cart and commit, update_cart_item 469-473 answers 404
EnsureCart(c) ==
    LET r == panel[c]
    IN  /\ r.pc = "cart"
        /\ IF r.cart # 0
           THEN /\ panel' = [panel EXCEPT ![c].pc = "ready"]
                /\ UNCHANGED cartVars
           ELSE IF r.op = "update_item"
           THEN /\ panel' = [panel EXCEPT
                               ![c].pc = "done",
                               ![c].resp = Response(r.op, 0, "customer", 404, "cart_not_found")]
                /\ UNCHANGED cartVars
           ELSE /\ carts' = Append(carts,
                               [total_amount |-> 0, status |-> "pending",
                                customer_id |-> Some(r.customer)])
                /\ panel' = [panel EXCEPT ![c].pc = "ready", ![c].cart = Len(carts) + 1]
                /\ UNCHANGED <<variant, cart_items>>
        /\ UNCHANGED <<storeVars, last, qtyVars, raceVars, balanceVars, readVars>>

\* the rest of the handler: get_customer_cart returns the cart,
\* add_item_to_cart 386-448 checks the item and inserts it,
\* update_cart_item 475-517 selects the item of the cart and assigns the edit
FinishPanel(c) ==
    LET r == panel[c]
        res == IF r.op = "add_item" THEN PanelItemCheck(r.item)
               ELSE IF r.op = "update_item"
                       /\ ~(/\ r.item_id \in 1..Len(cart_items)
                            /\ cart_items[r.item_id].cart_id = r.cart)
                    THEN Result(404, "item_not_found")
               ELSE Ok
    IN  /\ r.pc = "ready"
        /\ cart_items' =
              IF res # Ok \/ r.op = "get_cart" THEN cart_items
              ELSE IF r.op = "add_item"
              THEN Append(cart_items,
                          [cart_id |-> r.cart,
                           product_id |-> r.item.product_id,
                           quantity |-> r.item.quantity,
                           price |-> r.item.price,
                           selected_series |-> r.item.selected_series,
                           selected_color |-> r.item.selected_color])
              ELSE [cart_items EXCEPT ![r.item_id] = EditedItem(@, r.edit)]
        /\ panel' = [panel EXCEPT
                        ![c].pc = "done",
                        ![c].resp = Response(r.op,
                                             IF res # Ok THEN 0
                                             ELSE IF r.op = "get_cart" THEN r.cart
                                             ELSE IF r.op = "add_item" THEN Len(cart_items) + 1
                                             ELSE r.item_id,
                                             "customer", res.code, res.detail)]
        /\ UNCHANGED <<storeVars, last, qtyVars, variant, carts, raceVars, balanceVars, readVars>>

\* the response of client c is returned
ReturnPanel(c) ==
    /\ panel[c].pc = "done"
    /\ panel' = [panel EXCEPT ![c] = IdlePanel]
    /\ UNCHANGED <<storeVars, last, qtyVars, cartVars, raceVars, balanceVars, readVars>>

\* CartItemCreate of the panel: offered series, a series not offered, and
\* an offered colour
PanelItems ==
    { CartItem(1, 6, 1, <<1, 1, 2>>, ""), CartItem(1, 6, 1, <<4>>, ""),
      CartItem(1, 1, 2, <<>>, "red") }

NoEdit ==
    [quantity |-> None, price |-> None, selected_series |-> None, selected_color |-> None]

\* CartItemUpdate: a new quantity, and a series not offered
PanelEdits ==
    { [NoEdit EXCEPT !.quantity = Some(2)],
      [NoEdit EXCEPT !.selected_series = Some(<<4>>)] }

\* the authenticated customers of the panel runs
PanelCustomers == {1}

\* the staff of the panel runs
PanelRoles == {"admin"}

\* the product forms of the panel runs: series 1..3, and colours red and blue
PanelForms ==
    { VariantForm(Some(TRUE), Some(<<1, 2, 3>>), Some(<<2, 1, 3>>), None, None),
      VariantForm(Some(FALSE), None, None, Some(<<"red", "blue">>), Some(<<2, 1>>)) }

WithinPanelBounds ==
    /\ Len(carts') <= MaxPanelCarts
    /\ Len(cart_items') <= MaxPanelItems

NextPanel ==
    \/ Return
    \/ /\ Idle
       /\ \E form \in PanelForms, role \in PanelRoles : UpdateProductVariant(1, form, role)
    \/ /\ Idle
       /\ \E a \in BOOLEAN, role \in PanelRoles : UpdateProduct(1, a, role)
    \/ \E c \in Clients, cu \in PanelCustomers :
          StartPanel(c, "get_cart", cu, IdlePanel.item, 0, NoEdit)
    \/ \E c \in Clients, cu \in PanelCustomers, item \in PanelItems :
          StartPanel(c, "add_item", cu, item, 0, NoEdit)
    \/ \E c \in Clients, cu \in PanelCustomers, id \in 1..MaxPanelItems, edit \in PanelEdits :
          StartPanel(c, "update_item", cu, IdlePanel.item, id, edit)
    \/ \E c \in Clients : EnsureCart(c) /\ WithinPanelBounds
    \/ \E c \in Clients : FinishPanel(c) /\ WithinPanelBounds
    \/ \E c \in Clients : ReturnPanel(c)

SpecPanel == Init /\ [][NextPanel]_vars

\* C25: however the get-my-cart and add-item requests of a customer
\* interleave, at most one cart row exists for the customer.
C25_OneCartPerCustomer ==
    \A cu \in CustomerIds :
        Cardinality({k \in 1..Len(carts) : carts[k].customer_id = Some(cu)}) <= 1

\* the product of the item is available and offers the item's selection
Offered(item) ==
    /\ ProductExists(item.product_id)
    /\ products[item.product_id].is_available
    /\ LET v == variant[item.product_id]
       IN  IF v.is_series
           THEN /\ item.selected_series # <<>>
                /\ \A k \in 1..Len(item.selected_series) :
                      Contains(v.series_numbers, item.selected_series[k])
           ELSE Contains(v.available_colors, item.selected_color)

\* C26: an add-item or edit-item request whose product is unavailable or
\* whose resulting selection the product does not offer is rejected and
\* leaves the cart items unchanged.
C26_CartItemMutationsRevalidate ==
    [][\A c \in Clients :
          (/\ panel[c].pc = "ready" /\ panel'[c].pc = "done"
           /\ \/ /\ panel[c].op = "add_item"
                 /\ ~Offered(panel[c].item)
              \/ /\ panel[c].op = "update_item"
                 /\ panel[c].item_id \in 1..Len(cart_items)
                 /\ cart_items[panel[c].item_id].cart_id = panel[c].cart
                 /\ ~Offered(EditedItem(cart_items[panel[c].item_id], panel[c].edit)))
          => /\ panel'[c].resp.code # 200
             /\ cart_items' = cart_items]_vars

====
